---------------------------- MODULE Spec2Model ----------------------------
(***************************************************************************)
(* Code-Arena backend: matchmaking queue, duel room engine, judge polling. *)
(*                                                                         *)
(* The server is a single Node.js process: the synchronous stretch of a    *)
(* handler between two `await`s runs without interruption, and every       *)
(* `await` on the store (MongoDB through Mongoose), the cache (Redis) or   *)
(* the evaluator is a point where other handlers and timers may run.  One  *)
(* action of this module is one such stretch, together with the store or   *)
(* cache operation whose completion starts it.                             *)
(*                                                                         *)
(* Four specifications share the module:                                   *)
(*   SpecJob    judge dispatch: runCode / submitCode / getResult           *)
(*   SpecQueue  the MatchmakingQueue class on its own                      *)
(*   SpecMM     the findMatch / cancelMatchmaking handlers over the queue  *)
(*   Spec       one duel room: createMatch, submitSolution, leaveMatch,    *)
(*              the match timer and endMatch                               *)
(***************************************************************************)
EXTENDS Integers, Sequences, FiniteSets, TLC

VARIABLES
  \* ---- judge dispatch (code.controllers.ts)
  job,        \* the Redis hash job:<jobId>
  jobList,    \* the Redis lists code_jobs:<language>:<mode>, as the modes pushed
  enq,        \* the runCode / submitCode request in flight
  polls,      \* the getResult requests: position and the hash each one read
  solutions,  \* number of Solution documents created
  ttl,        \* TTL last set on the job hash (0: none)
  \* ---- matchmaking (matchmaking.service.ts, findMatch handler)
  queue,      \* MatchmakingQueue.queue: a Map, kept in insertion order
  lastFind,   \* the last MatchmakingQueue.findMatch call and what it returned
  mmTasks,    \* findMatch handler invocations in flight
  mmRooms,    \* rooms created by createMatch, as seen by the findMatch handler
  mmClock,    \* Date.now() of the matchmaking handlers
  deadlines,  \* armed matchmaking deadline timers
  mmEvents,   \* what the matchmaking handlers emitted or acknowledged
  mmGone,     \* findMatch invocations whose connection has disconnected
  \* ---- one duel room (socket.controllers.ts)
  roomDB,     \* the Room document in the store
  userRating, \* User.rating in the store
  tasks,      \* handler invocations; task 0 is the endMatch run of the match timer
  matchTimers,     \* matchTimers has an entry for the room
  matchStartTimes, \* matchStartTimes has an entry for the room
  now,        \* clock behind new Date() in submitSolution
  nFinished,  \* matchFinished broadcasts of the room
  finishLog,  \* the reasons of those broadcasts
  nSettle,    \* settlements that wrote the pair of user ratings
  \* ---- the members' connections (socket.controllers.ts)
  sessPc,     \* per member: connected ("idle"), in the disconnect handler, gone
  joinedRooms, \* per member: the connection's joinedRooms holds the room
  sessEvents, \* opponentDisconnected events emitted to the room
  \* ---- one contest (contest problem controllers)
  userDocs,   \* per user: solvedProblems and the contestsParticipated entry
  submissions, \* length of contest.submissions (one Solution each)
  submitted,  \* per user and problem: the highest score accepted so far (-1: none)
  reply,      \* the last response of a contest endpoint
  \* ---- Elo calculation (eloRating.ts)
  eloCall     \* the last calculateEloRatings call and what it returned

jobVars   == <<job, jobList, enq, polls, solutions, ttl>>
queueVars == <<queue, lastFind>>
mmVars    == <<mmTasks, mmRooms, mmClock, deadlines, mmEvents, mmGone>>
roomVars  == <<roomDB, userRating, tasks, matchTimers, matchStartTimes,
               now, nFinished, finishLog, nSettle>>
sessVars  == <<sessPc, joinedRooms, sessEvents>>
contestVars == <<userDocs, submissions, submitted, reply>>
vars      == <<jobVars, queueVars, mmVars, roomVars, sessVars, contestVars, eloCall>>

(***************************************************************************)
(* Bounds of the model.                                                    *)
(***************************************************************************)
MaxPolls == 2
MaxTime == 2
MaxFinds == 3
MaxOps == 2
MaxSessOps == 1
MaxSubmits == 3

(***************************************************************************)
(* JUDGE DISPATCH  (src/src/controllers/code.controllers.ts)               *)
(***************************************************************************)
SUPPORTED_JOB_LANGUAGES == {"python", "cpp", "java", "javascript"}

\* Request bodies of /code/run and /code/submit: code ("" when missing),
\* language as sent, whether testCases is an array, whether problemId is sent.
Payloads ==
  [code : {"", "print(1)"}, language : {"", "Python", "python", "ruby"},
   testCases : BOOLEAN, problemId : BOOLEAN]

\* String.prototype.toLowerCase on the languages of Payloads.
ToLowerCase(l) == IF l = "Python" THEN "python" ELSE l

\* The 400 guards of runCode and submitCode (the same in both).
PayloadRejected(p) ==
  \/ p.code = "" \/ p.language = "" \/ ~p.testCases
  \/ ToLowerCase(p.language) \notin SUPPORTED_JOB_LANGUAGES

\* hgetall of a key that does not exist returns an object without fields.
NoJob == [status |-> "none", mode |-> "none", score |-> "", persisted |-> FALSE]

\* A Redis key exists as long as its hash has a field.
KeyExists(h) == h.status # "none" \/ h.persisted

\* The scores a worker writes into the hash, as the strings Redis holds.
JobScores == {"0", "100"}

\* JSON null in a response.
Null == -1

\* Number(s) of a score string.
Number(s) == CASE s = "0" -> 0 [] s = "100" -> 100

\* A response that also reports the persisted flag.
ResponseWithPersisted(result) ==
  [status |-> result.status, mode |-> result.mode,
   score |-> IF result.score # "" THEN Number(result.score) ELSE Null,
   persisted |-> result.persisted]

\* The data of getResult's 200 response for a completed job, built from the
\* hash as read: status, mode, and score (with passed, total and results,
\* which the worker writes together with it) or null when it is empty.
Response(result) ==
  [status |-> result.status, mode |-> result.mode,
   score |-> IF result.score # "" THEN Number(result.score) ELSE Null]

\* A persist test that forgets the mode.
ShouldPersistAnyMode(result) == ~result.persisted

\* getResult's test before Solution.create.
ShouldPersist(result) == result.mode = "submit" /\ ~result.persisted

\* A poll that has not answered has no response data.
NoData == [status |-> "none"]

NoPoll == [pc |-> "idle", result |-> NoJob, http |-> 0, body |-> NoData]

JobInit ==
  /\ job = NoJob
  /\ jobList = <<>>
  /\ enq = [pc |-> "idle", mode |-> "none", http |-> 0]
  /\ polls = [i \in 1..MaxPolls |-> NoPoll]
  /\ solutions = 0
  /\ ttl = 0

\* runCode / submitCode up to the first write: validation, then hset of the
\* job hash with status queued.
EnqueueStart(mode, p) ==
  /\ enq.pc = "idle"
  /\ job = NoJob
  /\ IF PayloadRejected(p)
       THEN /\ enq' = [enq EXCEPT !.http = 400]
            /\ UNCHANGED job
       ELSE /\ job' = [status |-> "queued", mode |-> mode, score |-> "",
                        persisted |-> FALSE]
            /\ enq' = [pc |-> "push", mode |-> mode, http |-> 0]
  /\ UNCHANGED <<jobList, polls, solutions, ttl>>
  /\ UNCHANGED <<eloCall, contestVars, queueVars, mmVars, roomVars, sessVars>>

\* rpush of the descriptor onto code_jobs:<language>:<mode>, then 202.
EnqueuePush ==
  /\ enq.pc = "push"
  /\ jobList' = Append(jobList, enq.mode)
  /\ enq' = [enq EXCEPT !.pc = "done", !.http = 202]
  /\ UNCHANGED <<job, polls, solutions, ttl>>
  /\ UNCHANGED <<eloCall, contestVars, queueVars, mmVars, roomVars, sessVars>>

\* The language worker (out of process): takes the descriptor, runs it and
\* writes status completed (with score, passed, total, results) or failed.
WorkerTake ==
  /\ jobList # <<>>
  /\ jobList' = Tail(jobList)
  /\ job' = IF KeyExists(job) THEN [job EXCEPT !.status = "running"] ELSE job
  /\ UNCHANGED <<enq, polls, solutions, ttl>>
  /\ UNCHANGED <<eloCall, contestVars, queueVars, mmVars, roomVars, sessVars>>

WorkerFinish(st, score) ==
  /\ job.status = "running"
  /\ job' = [job EXCEPT !.status = st,
                        !.score = IF st = "completed" THEN score ELSE ""]
  /\ UNCHANGED <<jobList, enq, polls, solutions, ttl>>
  /\ UNCHANGED <<eloCall, contestVars, queueVars, mmVars, roomVars, sessVars>>

\* Redis drops the key when the TTL set by getResult runs out.
JobExpires ==
  /\ ttl # 0
  /\ job' = NoJob
  /\ ttl' = 0
  /\ UNCHANGED <<jobList, enq, polls, solutions>>
  /\ UNCHANGED <<eloCall, contestVars, queueVars, mmVars, roomVars, sessVars>>

\* getResult, from hgetall to the first await after it: 404 without status,
\* 200 {status} while not completed, else on to Solution.create or to expire.
PollRead(i) ==
  /\ polls[i].pc = "idle"
  /\ i > 1 => polls[i - 1].pc # "idle"
  /\ polls' = [polls EXCEPT ![i] =
       IF job.status = "none"
         THEN [pc |-> "done", result |-> job, http |-> 404, body |-> NoData]
       ELSE IF job.status # "completed"
         THEN [pc |-> "done", result |-> job, http |-> 200,
               body |-> [status |-> job.status]]
       ELSE IF ShouldPersist(job)
         THEN [pc |-> "create", result |-> job, http |-> 0, body |-> NoData]
       ELSE [pc |-> "expire", result |-> job, http |-> 0, body |-> NoData]]
  /\ UNCHANGED <<job, jobList, enq, solutions, ttl>>
  /\ UNCHANGED <<eloCall, contestVars, queueVars, mmVars, roomVars, sessVars>>

\* await Solution.create({...result})
PollCreate(i) ==
  /\ polls[i].pc = "create"
  /\ solutions' = solutions + 1
  /\ polls' = [polls EXCEPT ![i].pc = "hset"]
  /\ UNCHANGED <<job, jobList, enq, ttl>>
  /\ UNCHANGED <<eloCall, contestVars, queueVars, mmVars, roomVars, sessVars>>

\* await redis.hset(job:<id>, {persisted: "true"})
PollSetPersisted(i) ==
  /\ polls[i].pc = "hset"
  /\ job' = [job EXCEPT !.persisted = TRUE]
  /\ polls' = [polls EXCEPT ![i].pc = "expire"]
  /\ UNCHANGED <<jobList, enq, solutions, ttl>>
  /\ UNCHANGED <<eloCall, contestVars, queueVars, mmVars, roomVars, sessVars>>

\* await redis.expire(job:<id>, ttl), then the 200 response built from the
\* hash read at the start.
PollExpire(i) ==
  /\ polls[i].pc = "expire"
  /\ ttl' = IF ~KeyExists(job) THEN ttl
            ELSE IF polls[i].result.mode = "submit" THEN 600 ELSE 120
  /\ polls' = [polls EXCEPT ![i].pc = "done", ![i].http = 200,
                            ![i].body = Response(polls[i].result)]
  /\ UNCHANGED <<job, jobList, enq, solutions>>
  /\ UNCHANGED <<eloCall, contestVars, queueVars, mmVars, roomVars, sessVars>>

(***************************************************************************)
(* MATCHMAKING QUEUE  (src/src/services/matchmaking.service.ts)            *)
(***************************************************************************)
RATING_RANGE == 200
DEFAULT_RATING == 1000
Infinity == 1000000

Users == {"u1", "u2", "u3"}

\* Ratings of the players the queue is exercised with.  A player of 1200
\* has 1100 and 1300 at the same distance and 1000 exactly RATING_RANGE
\* away; 1000 and 1300 are out of each other's range.
QRatings == {1000, 1100, 1300}

\* Ratings of the player findMatch is called for.
ProbeRatings == {1000, 1200}

\* A QueuedPlayer; timeoutId 0 is the optional field left out.
NoPlayer == [userId |-> "none", rating |-> 0, joinedAt |-> 0, timeoutId |-> 0]

Player(u, r, t, tid) == [userId |-> u, rating |-> r, joinedAt |-> t, timeoutId |-> tid]

Abs(x) == IF x < 0 THEN -x ELSE x

\* this.queue.get(userId)
QueueGet(q, userId) ==
  IF \E i \in DOMAIN q : q[i].userId = userId
    THEN q[CHOOSE i \in DOMAIN q : q[i].userId = userId]
    ELSE NoPlayer

QueueHas(q, userId) == \E i \in DOMAIN q : q[i].userId = userId

QueueSize(q) == Len(q)

\* A remove that deleted nothing.
QueueRemoveNothing(q, userId) == q

\* remove(userId): the Map without the key; the other keys keep their order.
QueueRemove(q, userId) == SelectSeq(q, LAMBDA e : e.userId # userId)

\* A remove that left the timer of the deleted entry armed.
RemoveClearsNothing(q, userId) == {}

\* The timers remove(userId) clears: the timeoutId of the entry it deletes.
RemoveClears(q, userId) ==
  {q[i].timeoutId : i \in {j \in DOMAIN q : q[j].userId = userId /\ q[j].timeoutId # 0}}

\* add(player): remove(player.userId), then set, which puts the key last.
QueueAddNoRemove(q, player) == Append(q, player)

QueueAdd(q, player) == Append(QueueRemove(q, player.userId), player)

\* The loop of findMatch over the Map in insertion order, from entry i on,
\* with the running bestMatch and smallestRatingDiff.
RECURSIVE FindMatchLoopFirstInRange(_, _, _, _, _)
FindMatchLoopFirstInRange(q, i, player, bestMatch, smallestRatingDiff) ==
  IF i > Len(q) THEN bestMatch
  ELSE LET candidate == q[i]
           ratingDiff == Abs(candidate.rating - player.rating)
       IN IF candidate.userId = player.userId
            THEN FindMatchLoopFirstInRange(q, i + 1, player, bestMatch, smallestRatingDiff)
          ELSE IF /\ candidate.rating >= player.rating - RATING_RANGE
                  /\ candidate.rating <= player.rating + RATING_RANGE
                  /\ bestMatch = NoPlayer
            THEN FindMatchLoopFirstInRange(q, i + 1, player, candidate, ratingDiff)
          ELSE FindMatchLoopFirstInRange(q, i + 1, player, bestMatch, smallestRatingDiff)

RECURSIVE FindMatchLoop(_, _, _, _, _)
FindMatchLoop(q, i, player, bestMatch, smallestRatingDiff) ==
  IF i > Len(q) THEN bestMatch
  ELSE LET candidate == q[i]
           ratingDiff == Abs(candidate.rating - player.rating)
       IN IF candidate.userId = player.userId
            THEN FindMatchLoop(q, i + 1, player, bestMatch, smallestRatingDiff)
          ELSE IF /\ candidate.rating >= player.rating - RATING_RANGE
                  /\ candidate.rating <= player.rating + RATING_RANGE
                  /\ \/ ratingDiff < smallestRatingDiff
                     \/ /\ ratingDiff = smallestRatingDiff
                        /\ bestMatch # NoPlayer
                        /\ candidate.joinedAt < bestMatch.joinedAt
            THEN FindMatchLoop(q, i + 1, player, candidate, ratingDiff)
          ELSE FindMatchLoop(q, i + 1, player, bestMatch, smallestRatingDiff)

\* findMatch(player); NoPlayer stands for null.
FindMatchFirstInRange(q, player) == FindMatchLoopFirstInRange(q, 1, player, NoPlayer, Infinity)

FindMatch(q, player) == FindMatchLoop(q, 1, player, NoPlayer, Infinity)

\* The last call on the queue: the operation, its argument, the queue it
\* was called on, what it returned, and whether the userId was queued.
NoCall == [op |-> "none", player |-> NoPlayer, before |-> <<>>, res |-> NoPlayer,
           hit |-> FALSE]

QueueInit ==
  /\ queue = <<>>
  /\ lastFind = NoCall

\* matchmakingQueue.add(player) called with any player.
QAdd(u, r, t) ==
  /\ queue' = QueueAdd(queue, Player(u, r, t, 0))
  /\ lastFind' = [NoCall EXCEPT !.op = "add", !.hit = QueueHas(queue, u)]
  /\ UNCHANGED <<eloCall, contestVars, jobVars, mmVars, roomVars, sessVars>>

\* matchmakingQueue.remove(userId)
QRemove(u) ==
  /\ queue' = QueueRemove(queue, u)
  /\ lastFind' = [NoCall EXCEPT !.op = "remove", !.player = Player(u, 0, 0, 0),
                                  !.hit = QueueGet(queue, u) # NoPlayer]
  /\ UNCHANGED <<eloCall, contestVars, jobVars, mmVars, roomVars, sessVars>>

\* matchmakingQueue.findMatch(player): the queue is only read.
QFindMatch(u, r) ==
  /\ lastFind' = [op |-> "findMatch", player |-> Player(u, r, 0, 0),
                  before |-> queue,
                  res |-> FindMatch(queue, Player(u, r, 0, 0)),
                  hit |-> QueueHas(queue, u)]
  /\ UNCHANGED queue
  /\ UNCHANGED <<eloCall, contestVars, jobVars, mmVars, roomVars, sessVars>>

(***************************************************************************)
(* MATCHMAKING HANDLERS  (src/src/controllers/socket.controllers.ts)       *)
(*                                                                         *)
(* A handler invocation runs on a connection; socket.data.user is the user *)
(* document as it was when that connection was made, so two connections of *)
(* one user may carry different ratings (0: no rating stored).             *)
(***************************************************************************)
StoredRatings == {0, 1300}

\* The users whose connections send findMatch.
MMUsers == {"u1", "u2"}

\* const playerRating = user.rating || DEFAULT_RATING
PlayerRating(stored) == IF stored = 0 THEN DEFAULT_RATING ELSE stored

NoTask == [pc |-> "idle", user |-> "none", rating |-> 0, opp |-> NoPlayer,
           ack |-> "none", selfQueued |-> FALSE, oppQueued |-> FALSE]

MMInit ==
  /\ mmTasks = [i \in 1..MaxFinds |-> NoTask]
  /\ mmRooms = <<>>
  /\ mmClock = 0
  /\ deadlines = {}
  /\ mmEvents = {}
  /\ mmGone = {}

\* A findMatch handler without the live-room lookup.
ExistingRoomIgnored(rooms, userId) == FALSE

\* Room.findOne({"users.userId": userId, isActive: true, roomStatus: "Live"})
ExistingRoom(rooms, userId) ==
  \E k \in DOMAIN rooms : rooms[k].status = "Live" /\ userId \in {rooms[k].p1, rooms[k].p2}

\* findMatch handler up to `await Room.findOne`: the already-queued check.
FindMatchStart(i, u, stored) ==
  /\ mmTasks[i].pc = "idle"
  /\ i > 1 => mmTasks[i - 1].pc # "idle"
  /\ mmTasks' = [mmTasks EXCEPT ![i] =
       IF QueueHas(queue, u)
         THEN [NoTask EXCEPT !.pc = "done", !.user = u, !.ack = "alreadySearching"]
         ELSE [NoTask EXCEPT !.pc = "lookup", !.user = u, !.rating = PlayerRating(stored)]]
  /\ UNCHANGED <<queue, mmRooms, mmClock, deadlines, mmEvents>>
  /\ UNCHANGED <<eloCall, contestVars, jobVars, lastFind, roomVars, sessVars, mmGone>>

\* The stretch after Room.findOne: the live-room check, findMatch, and either
\* remove(opponent) and the start of createMatch, or setTimeout and add.
\* The deadline timer armed by invocation i carries the id i.
FindMatchLookup(i) ==
  /\ mmTasks[i].pc = "lookup"
  /\ LET u == mmTasks[i].user
         queuedPlayer == Player(u, mmTasks[i].rating, mmClock + 1, i)
         opponent == FindMatch(queue, queuedPlayer)
     IN IF ExistingRoom(mmRooms, u)
          THEN /\ mmTasks' = [mmTasks EXCEPT ![i].pc = "done", ![i].ack = "alreadyInMatch"]
               /\ UNCHANGED <<queue, mmClock, deadlines>>
        ELSE IF opponent # NoPlayer
          THEN /\ queue' = QueueRemove(queue, opponent.userId)
               /\ deadlines' = deadlines \ RemoveClears(queue, opponent.userId)
               /\ mmClock' = mmClock + 1
               /\ mmTasks' = [mmTasks EXCEPT ![i].pc = "problem", ![i].opp = opponent,
                                ![i].selfQueued = QueueHas(queue', u),
                                ![i].oppQueued = QueueHas(queue', opponent.userId)]
        ELSE /\ queue' = QueueAdd(queue, queuedPlayer)
             /\ deadlines' = (deadlines \ RemoveClears(queue, u)) \cup {i}
             /\ mmClock' = mmClock + 1
             /\ mmTasks' = [mmTasks EXCEPT ![i].pc = "done", ![i].ack = "searching"]
  /\ UNCHANGED <<mmRooms, mmEvents>>
  /\ UNCHANGED <<eloCall, contestVars, jobVars, lastFind, roomVars, sessVars, mmGone>>

\* createMatch after Problem.aggregate: without a problem both sockets get
\* matchmakingError and createMatch returns; the handler then acknowledges
\* with status matched.
CreateMatchProblem(i, found) ==
  /\ mmTasks[i].pc = "problem"
  /\ IF found
       THEN /\ mmTasks' = [mmTasks EXCEPT ![i].pc = "create"]
            /\ UNCHANGED mmEvents
       ELSE /\ mmTasks' = [mmTasks EXCEPT ![i].pc = "done", ![i].ack = "matched"]
            /\ mmEvents' = mmEvents \cup {<<"matchmakingError", i>>}
  /\ UNCHANGED <<queue, mmRooms, mmClock, deadlines>>
  /\ UNCHANGED <<eloCall, contestVars, jobVars, lastFind, roomVars, sessVars, mmGone>>

\* createMatch after Room.create: the room is stored Live, matchFound goes to
\* both sockets, and the handler acknowledges with status matched.
CreateMatchRoom(i) ==
  /\ mmTasks[i].pc = "create"
  /\ mmRooms' = Append(mmRooms, [p1 |-> mmTasks[i].user, p2 |-> mmTasks[i].opp.userId,
                                 status |-> "Live", by |-> i])
  /\ mmTasks' = [mmTasks EXCEPT ![i].pc = "done", ![i].ack = "matched"]
  /\ mmEvents' = mmEvents \cup {<<"matchFound", i>>}
  /\ UNCHANGED <<queue, mmClock, deadlines>>
  /\ UNCHANGED <<eloCall, contestVars, jobVars, lastFind, roomVars, sessVars, mmGone>>

\* The setTimeout callback of the findMatch handler.
DeadlineFires(i) ==
  /\ i \in deadlines
  /\ IF QueueHas(queue, mmTasks[i].user)
       THEN /\ queue' = QueueRemove(queue, mmTasks[i].user)
            /\ deadlines' = (deadlines \ {i}) \ RemoveClears(queue, mmTasks[i].user)
            /\ mmEvents' = mmEvents \cup {<<"matchmakingTimeout", i>>}
       ELSE /\ deadlines' = deadlines \ {i}
            /\ UNCHANGED <<queue, mmEvents>>
  /\ UNCHANGED <<mmTasks, mmRooms, mmClock>>
  /\ UNCHANGED <<eloCall, contestVars, jobVars, lastFind, roomVars, sessVars, mmGone>>

\* cancelMatchmaking handler
CancelMatchmaking(u) ==
  /\ QueueHas(queue, u)
  /\ queue' = QueueRemove(queue, u)
  /\ deadlines' = deadlines \ RemoveClears(queue, u)
  /\ UNCHANGED <<mmTasks, mmRooms, mmClock, mmEvents>>
  /\ UNCHANGED <<eloCall, contestVars, jobVars, lastFind, roomVars, sessVars, mmGone>>

\* disconnect handler of the connection findMatch invocation i runs on, a
\* connection that has sent no rejoinMatch (its joinedRooms is empty):
\* matchmakingQueue.remove(userId).  The invocation itself goes on.
Disconnect(i) ==
  /\ mmTasks[i].pc # "idle"
  /\ i \notin mmGone
  /\ mmGone' = mmGone \cup {i}
  /\ queue' = QueueRemove(queue, mmTasks[i].user)
  /\ deadlines' = deadlines \ RemoveClears(queue, mmTasks[i].user)
  /\ UNCHANGED <<mmTasks, mmRooms, mmClock, mmEvents>>
  /\ UNCHANGED <<eloCall, contestVars, jobVars, lastFind, roomVars, sessVars>>

\* A room of the matchmaking view ends (endMatch or leaveMatch stores it
\* completed and inactive).
MMRoomEnds(k) ==
  /\ mmRooms[k].status = "Live"
  /\ mmRooms' = [mmRooms EXCEPT ![k].status = "completed"]
  /\ UNCHANGED <<queue, mmTasks, mmClock, deadlines, mmEvents>>
  /\ UNCHANGED <<eloCall, contestVars, jobVars, lastFind, roomVars, sessVars, mmGone>>

(***************************************************************************)
(* ELO  (src/src/utils/eloRating.ts)                                       *)
(*                                                                         *)
(* Scores and expected scores are carried in millionths (Micro).           *)
(***************************************************************************)
K_NEW_PLAYER == 40
K_ESTABLISHED == 20
K_HIGH_RATED == 10
NEW_PLAYER_MAX == 1200
HIGH_RATED_MIN == 2000
MIN_RATING == 100
MAX_RATING == 4000
MAX_RATING_CHANGE == 50
Micro == 1000 * 1000

\* calculateExpectedScore(ratingA, ratingB) = 1 / (1 + 10^((ratingB - ratingA) / 400)),
\* in millionths, tabulated for the rating differences the model produces.
calculateExpectedScore(ratingA, ratingB) ==
  LET d == ratingB - ratingA
  IN CASE d = 0    -> 500000
       [] d = 10   -> 485613
       [] d = -10  -> 514387
       [] d = 20   -> 471249
       [] d = -20  -> 528751
       [] d = 100  -> 359935
       [] d = -100 -> 640065
       [] d = 200  -> 240253
       [] d = -200 -> 759747
       [] d = 300  -> 150979
       [] d = -300 -> 849021
       [] d = 400  -> 90909
       [] d = -400 -> 909091
       [] d = -3900 -> 1000000
       [] d = -3000 -> 1000000
       [] d = -2801 -> 1000000
       [] d = -2800 -> 1000000
       [] d = -2500 -> 999999
       [] d = -2300 -> 999998
       [] d = -2001 -> 999990
       [] d = -2000 -> 999990
       [] d = -1900 -> 999982
       [] d = -1899 -> 999982
       [] d = -1600 -> 999900
       [] d = -1400 -> 999684
       [] d = -1201 -> 999007
       [] d = -1200 -> 999001
       [] d = -1100 -> 998225
       [] d = -1099 -> 998215
       [] d = -1000 -> 996848
       [] d = -999 -> 996830
       [] d = -900 -> 994408
       [] d = -801 -> 990155
       [] d = -800 -> 990099
       [] d = -799 -> 990042
       [] d = -500 -> 946760
       [] d = -499 -> 946469
       [] d = -401 -> 909566
       [] d = -301 -> 849757
       [] d = -199 -> 758695
       [] d = -1 -> 501439
       [] d = 1 -> 498561
       [] d = 199 -> 241305
       [] d = 301 -> 150243
       [] d = 401 -> 90434
       [] d = 499 -> 53531
       [] d = 500 -> 53240
       [] d = 799 -> 9958
       [] d = 800 -> 9901
       [] d = 801 -> 9845
       [] d = 900 -> 5592
       [] d = 999 -> 3170
       [] d = 1000 -> 3152
       [] d = 1099 -> 1785
       [] d = 1100 -> 1775
       [] d = 1200 -> 999
       [] d = 1201 -> 993
       [] d = 1400 -> 316
       [] d = 1600 -> 100
       [] d = 1899 -> 18
       [] d = 1900 -> 18
       [] d = 2000 -> 10
       [] d = 2001 -> 10
       [] d = 2300 -> 2
       [] d = 2500 -> 1
       [] d = 2800 -> 0
       [] d = 2801 -> 0
       [] d = 3000 -> 0
       [] d = 3900 -> 0

\* A getKFactor that takes every player as provisional.
getKFactorProvisional(rating) == K_NEW_PLAYER

\* getKFactor(rating) as called by calculateEloRatings from endMatch and
\* leaveMatch: gamesPlayed is undefined.
getKFactor(rating) ==
  IF rating < NEW_PLAYER_MAX THEN K_NEW_PLAYER
  ELSE IF rating >= HIGH_RATED_MIN THEN K_HIGH_RATED
  ELSE K_ESTABLISHED

\* A calculateRatingChange that rounds up.
calculateRatingChangeCeil(kFactor, actualScore, expectedScore) ==
  LET change == kFactor * (actualScore - expectedScore)
  IN IF change > MAX_RATING_CHANGE * Micro THEN MAX_RATING_CHANGE
     ELSE IF change < -(MAX_RATING_CHANGE * Micro) THEN -MAX_RATING_CHANGE
     ELSE -((-change) \div Micro)

\* calculateRatingChange: K * (S - E), capped at +-50, else Math.round
\* (half up: floor(x + 1/2)).
calculateRatingChange(kFactor, actualScore, expectedScore) ==
  LET change == kFactor * (actualScore - expectedScore)
  IN IF change > MAX_RATING_CHANGE * Micro THEN MAX_RATING_CHANGE
     ELSE IF change < -(MAX_RATING_CHANGE * Micro) THEN -MAX_RATING_CHANGE
     ELSE (2 * change + Micro) \div (2 * Micro)

Max(a, b) == IF a > b THEN a ELSE b
Min(a, b) == IF a < b THEN a ELSE b

clampRating(rating) == Max(MIN_RATING, Min(MAX_RATING, rating))

\* getMatchResultScores(winner)
getMatchResultScores(winner) ==
  CASE winner = "A"    -> [scoreA |-> Micro, scoreB |-> 0]
    [] winner = "B"    -> [scoreA |-> 0, scoreB |-> Micro]
    [] winner = "draw" -> [scoreA |-> Micro \div 2, scoreB |-> Micro \div 2]

\* calculateEloRatings(ratingA, ratingB, result)
calculateEloRatings(ratingA, ratingB, result) ==
  LET expectedScoreA == calculateExpectedScore(ratingA, ratingB)
      expectedScoreB == Micro - expectedScoreA
      ratingChangeA == calculateRatingChange(getKFactor(ratingA), result.scoreA, expectedScoreA)
      ratingChangeB == calculateRatingChange(getKFactor(ratingB), result.scoreB, expectedScoreB)
  IN [newRatingA |-> clampRating(ratingA + ratingChangeA),
      newRatingB |-> clampRating(ratingB + ratingChangeB),
      ratingChangeA |-> ratingChangeA,
      ratingChangeB |-> ratingChangeB]

\* The ratings of the calls: the bounds of the scale, both K-factor
\* thresholds from either side, and ratings between them.
EloRatings == {100, 1000, 1199, 1200, 1500, 1999, 2000, 2400, 4000}

NoEloCall ==
  [ratingA |-> 0, ratingB |-> 0, winner |-> "none",
   out |-> [newRatingA |-> 0, newRatingB |-> 0, ratingChangeA |-> 0, ratingChangeB |-> 0]]

EloInit == eloCall = NoEloCall

\* A call calculateEloRatings(ratingA, ratingB, getMatchResultScores(winner)),
\* as endMatch and leaveMatch make it.
EloDuel(ratingA, ratingB, winner) ==
  /\ eloCall' = [ratingA |-> ratingA, ratingB |-> ratingB, winner |-> winner,
                 out |-> calculateEloRatings(ratingA, ratingB, getMatchResultScores(winner))]
  /\ UNCHANGED <<jobVars, queueVars, mmVars, roomVars, sessVars, contestVars>>

(***************************************************************************)
(* DUEL ROOM  (src/src/controllers/socket.controllers.ts)                  *)
(*                                                                         *)
(* One room with its two members.  A handler holds its own copy of the     *)
(* Room document from findOne on; room.save() sends the paths that copy    *)
(* changed since it was loaded (Mongoose's $set of the modified paths), so *)
(* a task keeps the document as loaded (orig) and as changed (doc).        *)
(***************************************************************************)
Members == <<"u1", "u2">>

\* Ratings a member has in the store when the room is made.
RoomRatings == {1000, 1200}

\* Scores evaluateSolution returns.
Scores == {0, 100}

SUPPORTED_LANGUAGES == {"cpp", "python", "javascript", "c", "java"}

NoRoom == [roomStatus |-> "none", isActive |-> FALSE, users |-> <<>>]

\* The users entry createMatch stores for a player.
NewRoomUser(userId, rating) ==
  [userId |-> userId, score |-> 0, submissionStatus |-> "pending",
   submissionTime |-> 0, rating |-> rating]

\* room.users.findIndex(u => u.userId.toString() === userId); 0 for -1.
UserIndex(room, userId) ==
  IF \E k \in DOMAIN room.users : room.users[k].userId = userId
    THEN CHOOSE k \in DOMAIN room.users : room.users[k].userId = userId
    ELSE 0

\* room.save(): every path of the copy that differs from what was loaded is
\* written to the stored document; the other paths of the store are kept.
SaveWholeDocument(db, orig, doc) == doc

Save(db, orig, doc) ==
  [roomStatus |-> IF doc.roomStatus # orig.roomStatus THEN doc.roomStatus ELSE db.roomStatus,
   isActive |-> IF doc.isActive # orig.isActive THEN doc.isActive ELSE db.isActive,
   users |-> [k \in DOMAIN db.users |->
      [userId |-> db.users[k].userId,
       rating |-> db.users[k].rating,
       score |-> IF doc.users[k].score # orig.users[k].score
                   THEN doc.users[k].score ELSE db.users[k].score,
       submissionStatus |-> IF doc.users[k].submissionStatus # orig.users[k].submissionStatus
                   THEN doc.users[k].submissionStatus ELSE db.users[k].submissionStatus,
       submissionTime |-> IF doc.users[k].submissionTime # orig.users[k].submissionTime
                   THEN doc.users[k].submissionTime ELSE db.users[k].submissionTime]]]

\* The comparator of endMatch's sort: negative keeps a before b.
\* A comparison that puts the lower score first.
CompareUsersAscending(a, b) ==
  IF b.score # a.score THEN a.score - b.score
  ELSE IF a.submissionTime # 0 /\ b.submissionTime # 0
    THEN a.submissionTime - b.submissionTime
  ELSE IF a.submissionTime # 0 /\ b.submissionTime = 0 THEN -1
  ELSE IF a.submissionTime = 0 /\ b.submissionTime # 0 THEN 1
  ELSE 0

CompareUsers(a, b) ==
  IF b.score # a.score THEN b.score - a.score
  ELSE IF a.submissionTime # 0 /\ b.submissionTime # 0
    THEN a.submissionTime - b.submissionTime
  ELSE IF a.submissionTime # 0 /\ b.submissionTime = 0 THEN -1
  ELSE IF a.submissionTime = 0 /\ b.submissionTime # 0 THEN 1
  ELSE 0

\* [...room.users].sort(CompareUsers) for the two users of a room (stable).
SortedUsers(users) ==
  IF CompareUsers(users[1], users[2]) > 0 THEN <<users[2], users[1]>> ELSE users

\* playerX.rating || DEFAULT_RATING
RatingOrDefault(rating) == IF rating = 0 THEN DEFAULT_RATING ELSE rating

\* endMatch, lines 231-262: the result and the new ratings from the sorted users.
EndMatchElo(sortedUsers) ==
  LET playerA == sortedUsers[1]
      playerB == sortedUsers[2]
      isDraw == playerA.score = playerB.score
      matchWinner == IF isDraw THEN "draw"
                     ELSE IF playerA.score > playerB.score THEN "A" ELSE "B"
      elo == calculateEloRatings(RatingOrDefault(playerA.rating),
                                 RatingOrDefault(playerB.rating),
                                 getMatchResultScores(matchWinner))
  IN [a |-> playerA.userId, b |-> playerB.userId, result |-> matchWinner,
      newRatingA |-> elo.newRatingA, newRatingB |-> elo.newRatingB,
      ratingChangeA |-> elo.ratingChangeA, ratingChangeB |-> elo.ratingChangeB]

\* The matchFinished payload of endMatch: reason, isDraw, the winner's userId
\* ("null" for a draw) and the scores of the sorted users.
MatchFinished(reason, sortedUsers) ==
  LET isDraw == Len(sortedUsers) >= 2 /\ sortedUsers[1].score = sortedUsers[2].score
  IN [reason |-> reason, isDraw |-> isDraw,
      winner |-> IF isDraw THEN "null" ELSE sortedUsers[1].userId,
      scores |-> [k \in DOMAIN sortedUsers |-> sortedUsers[k].score]]

\* leaveMatch, lines 611-620: the remaining player is A and wins.
ForfeitElo(winner, loser) ==
  LET elo == calculateEloRatings(RatingOrDefault(winner.rating),
                                 RatingOrDefault(loser.rating),
                                 getMatchResultScores("A"))
  IN [a |-> winner.userId, b |-> loser.userId, result |-> "A",
      newRatingA |-> elo.newRatingA, newRatingB |-> elo.newRatingB,
      ratingChangeA |-> elo.ratingChangeA, ratingChangeB |-> elo.ratingChangeB]

\* A handler invocation: kind "submit", "leave" or "timer".
IdleTask == [kind |-> "none", pc |-> "idle", user |-> "none", reason |-> "none",
             orig |-> NoRoom, doc |-> NoRoom, ack |-> "none"]

\* A handler that has returned; ack is the success flag it acknowledged
\* with ("none" for the timer, which has no callback).
Done(t, ack) == [IdleTask EXCEPT !.pc = "done", !.ack = ack]

\* The store before the room exists: the two members' ratings are drawn
\* from `ratings`; u3, who only takes part in the contest, has the default.
RoomStart(ratings) ==
  /\ roomDB = NoRoom
  /\ userRating \in {[u \in {"u1", "u2", "u3"} |-> IF u = "u3" THEN DEFAULT_RATING ELSE g[u]] :
                        g \in [{"u1", "u2"} -> ratings]}
  /\ tasks = [i \in 0..MaxOps |-> IdleTask]
  /\ matchTimers = FALSE
  /\ matchStartTimes = FALSE
  /\ now = 0
  /\ nFinished = 0
  /\ finishLog = {}
  /\ nSettle = 0

RoomInit == RoomStart(RoomRatings)

\* createMatch once a problem is found: Room.create with both players Live
\* and active, then the start time and the 30 minute timer.
CreateMatch ==
  /\ roomDB = NoRoom
  /\ roomDB' = [roomStatus |-> "Live", isActive |-> TRUE,
                users |-> [k \in 1..2 |-> NewRoomUser(Members[k], userRating[Members[k]])]]
  /\ matchStartTimes' = TRUE
  /\ matchTimers' = TRUE
  /\ UNCHANGED <<userRating, tasks, now, nFinished, finishLog, nSettle>>
  /\ UNCHANGED <<eloCall, contestVars, jobVars, queueVars, mmVars, sessVars>>

\* Starting order of the handler invocations 1..MaxOps.
MayStart(i) == tasks[i].pc = "idle" /\ (i > 1 => tasks[i - 1].pc # "idle")

\* A release that forgets the start time.
EndMatchHeadKeepsStart ==
  /\ matchTimers' = FALSE
  /\ UNCHANGED matchStartTimes

\* The synchronous head of endMatch: the timer entry and the start time go.
EndMatchHead ==
  /\ matchTimers' = FALSE
  /\ matchStartTimes' = FALSE

\* submitSolution up to `await evaluateSolution`: validation, Room.findOne,
\* the Live, membership and already-submitted checks, userSubmitting.
SubmitFind(i, u, language) ==
  /\ MayStart(i)
  /\ roomDB # NoRoom
  /\ LET t == [IdleTask EXCEPT !.kind = "submit", !.user = u]
     IN tasks' = [tasks EXCEPT ![i] =
          IF language \notin SUPPORTED_LANGUAGES THEN Done(t, "failure")
          ELSE IF roomDB.roomStatus # "Live" THEN Done(t, "failure")
          ELSE IF UserIndex(roomDB, u) = 0 THEN Done(t, "failure")
          ELSE IF roomDB.users[UserIndex(roomDB, u)].submissionStatus = "submitted"
            THEN Done(t, "failure")
          ELSE [t EXCEPT !.pc = "eval", !.orig = roomDB, !.doc = roomDB]]
  /\ UNCHANGED <<roomDB, userRating, matchTimers, matchStartTimes, now,
                 nFinished, finishLog, nSettle>>
  /\ UNCHANGED <<eloCall, contestVars, jobVars, queueVars, mmVars, sessVars>>

\* evaluateSolution returns score: the user's entry of the copy is set and
\* room.save() stores it.
SubmitSave(i, score) ==
  /\ tasks[i].kind = "submit" /\ tasks[i].pc = "eval"
  /\ LET t == tasks[i]
         k == UserIndex(t.doc, t.user)
         doc == [t.doc EXCEPT !.users[k].score = score,
                              !.users[k].submissionStatus = "submitted",
                              !.users[k].submissionTime = now + 1]
     IN /\ roomDB' = Save(roomDB, t.orig, doc)
        /\ tasks' = [tasks EXCEPT ![i].pc = "saved", ![i].doc = doc, ![i].orig = doc]
  /\ now' = now + 1
  /\ UNCHANGED <<userRating, matchTimers, matchStartTimes,
                 nFinished, finishLog, nSettle>>
  /\ UNCHANGED <<eloCall, contestVars, jobVars, queueVars, mmVars, sessVars>>

\* After the save: scoreUpdate and submissionUpdate, then the allSubmitted
\* test on the handler's copy; endMatch starts when it passes.
SubmitAfterSave(i) ==
  /\ tasks[i].kind = "submit" /\ tasks[i].pc = "saved"
  /\ IF \A k \in DOMAIN tasks[i].doc.users :
          tasks[i].doc.users[k].submissionStatus \in {"submitted", "forfeited"}
       THEN /\ EndMatchHead
            /\ tasks' = [tasks EXCEPT ![i].pc = "em_find", ![i].reason = "allSubmitted"]
       ELSE /\ tasks' = [tasks EXCEPT ![i] = Done(tasks[i], "success")]
            /\ UNCHANGED <<matchTimers, matchStartTimes>>
  /\ UNCHANGED <<roomDB, userRating, now, nFinished, finishLog, nSettle>>
  /\ UNCHANGED <<eloCall, contestVars, jobVars, queueVars, mmVars, sessVars>>

\* The match timer fires: endMatch(roomId, "timeout") starts.
TimerFires ==
  /\ matchTimers
  /\ tasks[0].pc = "idle"
  /\ EndMatchHead
  /\ tasks' = [tasks EXCEPT ![0] = [IdleTask EXCEPT !.kind = "timer", !.pc = "em_find",
                                                    !.reason = "timeout"]]
  /\ UNCHANGED <<roomDB, userRating, now, nFinished, finishLog, nSettle>>
  /\ UNCHANGED <<eloCall, contestVars, jobVars, queueVars, mmVars, sessVars>>

\* An endMatch without its guard.
EndMatchAlwaysSettles(room) == FALSE

\* endMatch's guard: Room.findOne({roomId, isActive: true}) found nothing, or
\* the room it found is completed.
EndMatchReturns(room) == ~room.isActive \/ room.roomStatus = "completed"

\* endMatch after Room.findOne({roomId, isActive: true}): return when there
\* is no such room or it is completed; else sort, mark the copy completed
\* and inactive.
EndMatchFind(i) ==
  /\ tasks[i].pc = "em_find"
  /\ tasks' = [tasks EXCEPT ![i] =
       IF EndMatchReturns(roomDB)
         THEN Done(tasks[i], IF tasks[i].kind = "submit" THEN "success" ELSE "none")
         ELSE [tasks[i] EXCEPT !.pc = "em_save", !.orig = roomDB,
                 !.doc = [roomDB EXCEPT !.roomStatus = "completed", !.isActive = FALSE]]]
  /\ UNCHANGED <<roomDB, userRating, matchTimers, matchStartTimes, now,
                 nFinished, finishLog, nSettle>>
  /\ UNCHANGED <<eloCall, contestVars, jobVars, queueVars, mmVars, sessVars>>

\* await room.save() of endMatch
EndMatchSave(i) ==
  /\ tasks[i].pc = "em_save"
  /\ roomDB' = Save(roomDB, tasks[i].orig, tasks[i].doc)
  /\ tasks' = [tasks EXCEPT ![i].pc = "em_ratings"]
  /\ UNCHANGED <<userRating, matchTimers, matchStartTimes, now,
                 nFinished, finishLog, nSettle>>
  /\ UNCHANGED <<eloCall, contestVars, jobVars, queueVars, mmVars, sessVars>>

\* The two User.findByIdAndUpdate of endMatch (Promise.all).
EndMatchRatings(i) ==
  /\ tasks[i].pc = "em_ratings"
  /\ LET elo == EndMatchElo(SortedUsers(tasks[i].orig.users))
     IN /\ userRating' = [userRating EXCEPT ![elo.a] = elo.newRatingA,
                                            ![elo.b] = elo.newRatingB]
  /\ nSettle' = nSettle + 1
  /\ tasks' = [tasks EXCEPT ![i].pc = "em_emit"]
  /\ UNCHANGED <<roomDB, matchTimers, matchStartTimes, now, nFinished, finishLog>>
  /\ UNCHANGED <<eloCall, contestVars, jobVars, queueVars, mmVars, sessVars>>

\* io.to(roomId).emit("matchFinished", {reason, ...}); endMatch returns and
\* a submitSolution caller acknowledges success.
EndMatchEmit(i) ==
  /\ tasks[i].pc = "em_emit"
  /\ nFinished' = nFinished + 1
  /\ finishLog' = finishLog \cup {tasks[i].reason}
  /\ tasks' = [tasks EXCEPT ![i] =
                 Done(tasks[i], IF tasks[i].kind = "submit" THEN "success" ELSE "none")]
  /\ UNCHANGED <<roomDB, userRating, matchTimers, matchStartTimes, now, nSettle>>
  /\ UNCHANGED <<eloCall, contestVars, jobVars, queueVars, mmVars, sessVars>>

\* leaveMatch (socket.leave and joinedRooms.delete first) after
\* Room.findOne({roomId, isActive: true}): the leaver's
\* entry of the copy is forfeited with score 0; with at most one player
\* left the copy is completed and inactive and the timer and start time go.
LeaveFind(i, u) ==
  /\ MayStart(i)
  /\ roomDB # NoRoom
  /\ LET t == [IdleTask EXCEPT !.kind = "leave", !.user = u]
         k == UserIndex(roomDB, u)
         forfeited == [roomDB EXCEPT !.users[k].submissionStatus = "forfeited",
                                     !.users[k].score = 0]
         remainingPlayers == {j \in DOMAIN forfeited.users :
                                forfeited.users[j].submissionStatus # "forfeited"}
     IN IF ~roomDB.isActive
          THEN /\ tasks' = [tasks EXCEPT ![i] = Done(t, "success")]
               /\ UNCHANGED <<matchTimers, matchStartTimes>>
        ELSE IF k = 0
          THEN /\ tasks' = [tasks EXCEPT ![i] = Done(t, "success")]
               /\ UNCHANGED <<matchTimers, matchStartTimes>>
        ELSE IF Cardinality(remainingPlayers) <= 1
          THEN /\ EndMatchHead
               /\ tasks' = [tasks EXCEPT ![i] =
                    [t EXCEPT !.orig = roomDB,
                              !.doc = [forfeited EXCEPT !.roomStatus = "completed",
                                                        !.isActive = FALSE],
                              !.pc = IF Cardinality(remainingPlayers) = 1
                                          /\ Len(roomDB.users) >= 2
                                       THEN "lv_ratings" ELSE "lv_save"]]
        ELSE /\ tasks' = [tasks EXCEPT ![i] =
                  [t EXCEPT !.orig = roomDB, !.doc = forfeited, !.pc = "lv_save"]]
             /\ UNCHANGED <<matchTimers, matchStartTimes>>
  /\ UNCHANGED <<roomDB, userRating, now, nFinished, finishLog, nSettle>>
  /\ joinedRooms' = [joinedRooms EXCEPT ![u] = FALSE]
  /\ UNCHANGED <<eloCall, contestVars, jobVars, queueVars, mmVars, sessPc, sessEvents>>

\* The two User.findByIdAndUpdate of leaveMatch (Promise.all).
LeaveRatings(i) ==
  /\ tasks[i].pc = "lv_ratings"
  /\ LET t == tasks[i]
         k == UserIndex(t.doc, t.user)
         w == CHOOSE j \in DOMAIN t.doc.users : t.doc.users[j].submissionStatus # "forfeited"
         elo == ForfeitElo(t.doc.users[w], t.doc.users[k])
     IN /\ userRating' = [userRating EXCEPT ![elo.a] = elo.newRatingA,
                                            ![elo.b] = elo.newRatingB]
  /\ nSettle' = nSettle + 1
  /\ tasks' = [tasks EXCEPT ![i].pc = "lv_save"]
  /\ UNCHANGED <<roomDB, matchTimers, matchStartTimes, now, nFinished, finishLog>>
  /\ UNCHANGED <<eloCall, contestVars, jobVars, queueVars, mmVars, sessVars>>

\* await room.save() of leaveMatch, then opponentLeft and the acknowledgement.
LeaveSave(i) ==
  /\ tasks[i].pc = "lv_save"
  /\ roomDB' = Save(roomDB, tasks[i].orig, tasks[i].doc)
  /\ tasks' = [tasks EXCEPT ![i] = Done(tasks[i], "success")]
  /\ UNCHANGED <<userRating, matchTimers, matchStartTimes, now,
                 nFinished, finishLog, nSettle>>
  /\ UNCHANGED <<eloCall, contestVars, jobVars, queueVars, mmVars, sessVars>>

\* An event of a handler declared `async ({ roomId, ... }, callback) =>`
\* (submitSolution, leaveMatch) arrives with null in place of the payload
\* object: binding the parameters throws before the handler's try block is
\* entered, the promise of the handler rejects and nothing else runs; the
\* callback is not invoked.
MissingPayload(i, event) ==
  /\ MayStart(i)
  /\ tasks' = [tasks EXCEPT ![i] = Done([IdleTask EXCEPT !.kind = event], "none")]
  /\ UNCHANGED <<roomDB, userRating, matchTimers, matchStartTimes, now,
                 nFinished, finishLog, nSettle>>
  /\ UNCHANGED <<eloCall, contestVars, jobVars, queueVars, mmVars, sessVars>>

(***************************************************************************)
(* STORE FAILURES DURING SETTLEMENT  (src/src/controllers/socket.controllers.ts) *)
(*                                                                         *)
(* A rejected promise of the store: room.save() throws into the handler's  *)
(* outer catch, a rejected Promise.all of the rating writes is caught by   *)
(* the inner try around it.                                                *)
(***************************************************************************)
\* The ratings after a Promise.all of two writes of which only those in
\* `written` took effect.
PartialRatings(elo, written) ==
  [u \in DOMAIN userRating |->
     IF u = elo.a /\ "a" \in written THEN elo.newRatingA
     ELSE IF u = elo.b /\ "b" \in written THEN elo.newRatingB
     ELSE userRating[u]]

\* room.save() of endMatch rejects: the outer catch logs and endMatch
\* returns; nothing after the save runs.
EndMatchSaveFails(i) ==
  /\ tasks[i].pc = "em_save"
  /\ tasks' = [tasks EXCEPT ![i] =
                 Done(tasks[i], IF tasks[i].kind = "submit" THEN "success" ELSE "none")]
  /\ UNCHANGED <<roomDB, userRating, matchTimers, matchStartTimes, now,
                 nFinished, finishLog, nSettle>>
  /\ UNCHANGED <<eloCall, contestVars, jobVars, queueVars, mmVars, sessVars>>

\* A rating write of endMatch rejects: the inner catch logs and endMatch
\* goes on to the broadcast.
EndMatchRatingsFail(i, written) ==
  /\ tasks[i].pc = "em_ratings"
  /\ written # {"a", "b"}
  /\ userRating' = PartialRatings(EndMatchElo(SortedUsers(tasks[i].orig.users)), written)
  /\ nSettle' = IF written = {} THEN nSettle ELSE nSettle + 1
  /\ tasks' = [tasks EXCEPT ![i].pc = "em_emit"]
  /\ UNCHANGED <<roomDB, matchTimers, matchStartTimes, now, nFinished, finishLog>>
  /\ UNCHANGED <<eloCall, contestVars, jobVars, queueVars, mmVars, sessVars>>

\* A rating write of leaveMatch rejects: the inner catch logs and the
\* handler goes on to room.save().
LeaveRatingsFail(i, written) ==
  /\ tasks[i].pc = "lv_ratings"
  /\ written # {"a", "b"}
  /\ LET t == tasks[i]
         k == UserIndex(t.doc, t.user)
         w == CHOOSE j \in DOMAIN t.doc.users : t.doc.users[j].submissionStatus # "forfeited"
     IN userRating' = PartialRatings(ForfeitElo(t.doc.users[w], t.doc.users[k]), written)
  /\ nSettle' = IF written = {} THEN nSettle ELSE nSettle + 1
  /\ tasks' = [tasks EXCEPT ![i].pc = "lv_save"]
  /\ UNCHANGED <<roomDB, matchTimers, matchStartTimes, now, nFinished, finishLog>>
  /\ UNCHANGED <<eloCall, contestVars, jobVars, queueVars, mmVars, sessVars>>

\* room.save() of leaveMatch rejects: the outer catch acknowledges failure.
LeaveSaveFails(i) ==
  /\ tasks[i].pc = "lv_save"
  /\ tasks' = [tasks EXCEPT ![i] = Done(tasks[i], "failure")]
  /\ UNCHANGED <<roomDB, userRating, matchTimers, matchStartTimes, now,
                 nFinished, finishLog, nSettle>>
  /\ UNCHANGED <<eloCall, contestVars, jobVars, queueVars, mmVars, sessVars>>

(***************************************************************************)
(* CONNECTIONS OF THE ROOM'S MEMBERS  (src/src/controllers/socket.controllers.ts) *)
(*                                                                         *)
(* Each member has one connection at a time.  joinedRooms is the Set the   *)
(* connection handler keeps per socket; only rejoinMatch adds to it.       *)
(***************************************************************************)
SessInit ==
  /\ sessPc = [u \in {"u1", "u2"} |-> "idle"]
  /\ joinedRooms = [u \in {"u1", "u2"} |-> FALSE]
  /\ sessEvents = {}

\* A rejoinMatch that put the member back to pending (the code has none).
RejoinResets(room, userId) ==
  IF UserIndex(room, userId) = 0 THEN room
  ELSE [room EXCEPT !.users[UserIndex(room, userId)].submissionStatus = "pending"]

\* What rejoinMatch stores for the room: it only reads it.
RejoinedRoom(room, userId) == room

\* The acknowledgement of rejoinMatch without remainingTime: success and,
\* for a room that was found, roomStatus and users.
RejoinSnapshot(room, userId) ==
  IF room.isActive /\ UserIndex(room, userId) # 0
    THEN [success |-> TRUE, roomStatus |-> room.roomStatus, users |-> room.users]
    ELSE [success |-> FALSE, roomStatus |-> "none", users |-> <<>>]

\* rejoinMatch after Room.findOne({roomId, isActive: true, users.userId}):
\* socket.join and joinedRooms.add when the room is found.
RejoinMatch(u) ==
  /\ sessPc[u] = "idle"
  /\ roomDB # NoRoom
  /\ joinedRooms' = IF roomDB.isActive THEN [joinedRooms EXCEPT ![u] = TRUE]
                                       ELSE joinedRooms
  /\ roomDB' = RejoinedRoom(roomDB, u)
  /\ UNCHANGED <<sessPc, sessEvents>>
  /\ UNCHANGED <<userRating, tasks, matchTimers, matchStartTimes, now,
                 nFinished, finishLog, nSettle>>
  /\ UNCHANGED <<eloCall, contestVars, jobVars, queueVars, mmVars>>

\* A disconnect handler that forfeited the member (the code has none).
DisconnectForfeits(room, userId) ==
  IF UserIndex(room, userId) = 0 THEN room
  ELSE [room EXCEPT !.users[UserIndex(room, userId)].submissionStatus = "forfeited"]

\* What the disconnect handler stores for the room: it writes nothing.
DisconnectedRoom(room, userId) == room

\* disconnect handler up to the first Room.findOne of its loop over
\* joinedRooms (the loop is empty when the Set is).
DisconnectStart(u) ==
  /\ sessPc[u] = "idle"
  /\ sessPc' = [sessPc EXCEPT ![u] = IF joinedRooms[u] THEN "find" ELSE "gone"]
  /\ roomDB' = DisconnectedRoom(roomDB, u)
  /\ UNCHANGED <<joinedRooms, sessEvents>>
  /\ UNCHANGED <<userRating, tasks, matchTimers, matchStartTimes, now,
                 nFinished, finishLog, nSettle>>
  /\ UNCHANGED <<eloCall, contestVars, jobVars, queueVars, mmVars>>

\* disconnect handler after Room.findOne({roomId, isActive: true}):
\* opponentDisconnected {temporary: true} to the room when it is found.
DisconnectRoom(u) ==
  /\ sessPc[u] = "find"
  /\ sessPc' = [sessPc EXCEPT ![u] = "gone"]
  /\ sessEvents' = IF roomDB # NoRoom /\ roomDB.isActive
                     THEN sessEvents \cup {<<"opponentDisconnected", u>>}
                     ELSE sessEvents
  /\ roomDB' = DisconnectedRoom(roomDB, u)
  /\ UNCHANGED joinedRooms
  /\ UNCHANGED <<userRating, tasks, matchTimers, matchStartTimes, now,
                 nFinished, finishLog, nSettle>>
  /\ UNCHANGED <<eloCall, contestVars, jobVars, queueVars, mmVars>>

\* The member connects again: a new socket with an empty joinedRooms.
Reconnect(u) ==
  /\ sessPc[u] = "gone"
  /\ sessPc' = [sessPc EXCEPT ![u] = "idle"]
  /\ joinedRooms' = [joinedRooms EXCEPT ![u] = FALSE]
  /\ UNCHANGED sessEvents
  /\ UNCHANGED <<eloCall, contestVars, jobVars, queueVars, mmVars, roomVars>>

(***************************************************************************)
(* CONTEST ENDPOINTS  (src/unnamed/part_002)                               *)
(*                                                                         *)
(* One contest with three participants and two problems.  The requests     *)
(* are taken one after the other, each from its first read to its          *)
(* response.  A user's document is the part the endpoints touch:           *)
(* solvedProblems, and of the contestsParticipated entry of the contest    *)
(* its contestProblems and score; rating is userRating.                    *)
(***************************************************************************)
CUsers == <<"u1", "u2", "u3">>
Problems == {"p1", "p2"}
ContestScores == {0, 50, 100}

\* The Problem documents: p1 carries its maxScore, p2 has none and one test case.
ProblemDocs(p) ==
  IF p = "p1" THEN [maxScore |-> 100, testCases |-> 2]
              ELSE [maxScore |-> 0, testCases |-> 1]

\* problem.maxScore > 0 ? problem.maxScore : (problem.testCases?.length || 0) * 100
actualMaxScore(problem) ==
  IF problem.maxScore > 0 THEN problem.maxScore ELSE problem.testCases * 100

\* score >= actualMaxScore ? "correct" : score > 0 ? "partially correct" : "wrong"
actualStatus(score, maxScore) ==
  IF score >= maxScore THEN "correct"
  ELSE IF score > 0 THEN "partially correct"
  ELSE "wrong"

\* contestProblems.find(p => p.problemId.toString() === problemId): the
\* index of the first such entry, 0 when there is none.
EntryIndex(contestProblems, p) ==
  IF \E i \in DOMAIN contestProblems : contestProblems[i].problemId = p
    THEN CHOOSE i \in DOMAIN contestProblems :
           /\ contestProblems[i].problemId = p
           /\ \A j \in 1..(i - 1) : contestProblems[j].problemId # p
    ELSE 0

\* An upsert that stores the latest score.
UpsertLatest(contestProblems, p, score, status) ==
  LET k == EntryIndex(contestProblems, p)
  IN IF k = 0
       THEN Append(contestProblems,
                   [problemId |-> p, score |-> score, submissionStatus |-> status])
       ELSE [contestProblems EXCEPT ![k].score = score,
                                    ![k].submissionStatus = status]

\* The upsert of the problem's entry: a new entry with the score, or the
\* entry's score raised to Math.max(problemEntry.score || 0, score); the
\* status is that of this submission either way.
UpsertProblem(contestProblems, p, score, status) ==
  LET k == EntryIndex(contestProblems, p)
  IN IF k = 0
       THEN Append(contestProblems,
                   [problemId |-> p, score |-> score, submissionStatus |-> status])
       ELSE [contestProblems EXCEPT ![k].score = Max(@, score),
                                    ![k].submissionStatus = status]

\* contestProblems.reduce((acc, p) => acc + (p.score || 0), 0)
RECURSIVE SumScores(_)
SumScores(contestProblems) ==
  IF contestProblems = <<>> THEN 0
  ELSE contestProblems[1].score + SumScores(Tail(contestProblems))

\* A test that never finds the problem solved.
AlreadySolvedNever(solvedProblems, p) == FALSE

\* user.solvedProblems.some(sp => sp.problemId.toString() === problemId)
AlreadySolved(solvedProblems, p) ==
  \E i \in DOMAIN solvedProblems : solvedProblems[i] = p

NoReply == [status |-> 0, solvedForFirstTime |-> FALSE, board |-> <<>>]

ContestInit ==
  /\ userDocs = [u \in {"u1", "u2", "u3"} |->
                   [solvedProblems |-> <<>>, contestProblems |-> <<>>, score |-> 0]]
  /\ submissions = 0
  /\ submitted = [u \in {"u1", "u2", "u3"} |-> [p \in Problems |-> -1]]
  /\ reply = NoReply

\* POST /submit-solution/:contestId/:problemId by participant u.  A body
\* without score, solutionCode or languageUsed is answered 400 before any
\* write.  Else: Solution.create, contest.submissions.push and save, the
\* upsert, the entry's score as the sum, the first correct solve of the
\* problem appended to solvedProblems with rating + 10, user.save(), 201.
SubmitSolution(u, p, score, complete) ==
  /\ complete => submissions < MaxSubmits
  /\ IF ~complete
       THEN /\ reply' = [NoReply EXCEPT !.status = 400]
            /\ UNCHANGED <<userDocs, submissions, submitted, userRating>>
       ELSE LET maxScore == actualMaxScore(ProblemDocs(p))
                status == actualStatus(score, maxScore)
                doc == userDocs[u]
                contestProblems == UpsertProblem(doc.contestProblems, p, score, status)
                solvedForFirstTime ==
                  status = "correct" /\ ~AlreadySolved(doc.solvedProblems, p)
            IN /\ userDocs' = [userDocs EXCEPT ![u] =
                     [solvedProblems |-> IF solvedForFirstTime
                                           THEN Append(doc.solvedProblems, p)
                                           ELSE doc.solvedProblems,
                      contestProblems |-> contestProblems,
                      score |-> SumScores(contestProblems)]]
               /\ userRating' = IF solvedForFirstTime
                                  THEN [userRating EXCEPT ![u] =
                                          (IF @ = 0 THEN 1000 ELSE @) + 10]
                                  ELSE userRating
               /\ submissions' = submissions + 1
               /\ submitted' = [submitted EXCEPT ![u][p] = Max(@, score)]
               /\ reply' = [NoReply EXCEPT !.status = 201,
                                           !.solvedForFirstTime = solvedForFirstTime]
  /\ UNCHANGED <<roomDB, tasks, matchTimers, matchStartTimes, now,
                 nFinished, finishLog, nSettle>>
  /\ UNCHANGED <<eloCall, jobVars, queueVars, mmVars, sessVars>>

\* POST /submit-solution answered 404 (contest, problem or user not found)
\* or 403 (the user is not in contest.participants): thrown before the
\* body is read, nothing is written.
SubmitRefused(status) ==
  /\ reply' = [NoReply EXCEPT !.status = status]
  /\ UNCHANGED <<userDocs, submissions, submitted>>
  /\ UNCHANGED <<eloCall, jobVars, queueVars, mmVars, roomVars, sessVars>>

\* POST /submit-solution by a user who is in contest.participants but whose
\* contestsParticipated has no entry for the contest: Solution.create and
\* the push to contest.submissions with contest.save() come first, then
\* the entry is looked up and the 400 is thrown.
SubmitWithoutEntry ==
  /\ submissions < MaxSubmits
  /\ submissions' = submissions + 1
  /\ reply' = [NoReply EXCEPT !.status = 400]
  /\ UNCHANGED <<userDocs, submitted>>
  /\ UNCHANGED <<eloCall, jobVars, queueVars, mmVars, roomVars, sessVars>>

\* An insertion that puts the entry before those of equal score.
InsertBeforeTies(sorted, e) ==
  LET k == Cardinality({i \in DOMAIN sorted : sorted[i].score > e.score})
  IN SubSeq(sorted, 1, k) \o <<e>> \o SubSeq(sorted, k + 1, Len(sorted))

\* One step of the stable sort with (a, b) => b.score - a.score: the entry
\* goes behind every entry whose score is not lower.
InsertByScore(sorted, e) ==
  LET k == Cardinality({i \in DOMAIN sorted : sorted[i].score >= e.score})
  IN SubSeq(sorted, 1, k) \o <<e>> \o SubSeq(sorted, k + 1, Len(sorted))

\* Array.prototype.sort((a, b) => b.score - a.score), which is stable.
RECURSIVE SortByScore(_)
SortByScore(entries) ==
  IF entries = <<>> THEN <<>>
  ELSE InsertByScore(SortByScore(SubSeq(entries, 1, Len(entries) - 1)),
                     entries[Len(entries)])

\* The leaderboard entry of a user before sorting: contestEntry.score || 0
\* and the size of the Set of problemIds of the correct entries.
BoardEntry(u, doc) ==
  [userId |-> u, score |-> doc.score,
   problemsSolved |->
     Cardinality({doc.contestProblems[i].problemId :
                    i \in {j \in DOMAIN doc.contestProblems :
                             doc.contestProblems[j].submissionStatus = "correct"}})]

\* getLeaderboard's data: map, sort, then rank: index + 1.
getLeaderboard(users, docs) ==
  LET sorted == SortByScore([i \in DOMAIN users |-> BoardEntry(users[i], docs[users[i]])])
  IN [i \in DOMAIN sorted |->
        [userId |-> sorted[i].userId, score |-> sorted[i].score,
         problemsSolved |-> sorted[i].problemsSolved, rank |-> i]]

\* GET /get-leaderboard/:contestId: 404 without the contest, else 200 with
\* the leaderboard of the users as User.find returns them.
GetLeaderboard(found) ==
  /\ reply' = IF found
                THEN [NoReply EXCEPT !.status = 200,
                                     !.board = getLeaderboard(CUsers, userDocs)]
                ELSE [NoReply EXCEPT !.status = 404]
  /\ UNCHANGED <<userDocs, submissions, submitted>>
  /\ UNCHANGED <<eloCall, jobVars, queueVars, mmVars, roomVars, sessVars>>

(***************************************************************************)
(* Specifications                                                          *)
(***************************************************************************)
Init == JobInit /\ QueueInit /\ MMInit /\ RoomInit /\ SessInit /\ ContestInit /\ EloInit

JobNext ==
  \/ \E mode \in {"run", "submit"}, p \in Payloads : EnqueueStart(mode, p)
  \/ EnqueuePush
  \/ WorkerTake
  \/ \E st \in {"completed", "failed"}, score \in JobScores : WorkerFinish(st, score)
  \/ JobExpires
  \/ \E i \in 1..MaxPolls : PollRead(i)
  \/ \E i \in 1..MaxPolls : PollCreate(i)
  \/ \E i \in 1..MaxPolls : PollSetPersisted(i)
  \/ \E i \in 1..MaxPolls : PollExpire(i)

SpecJob == Init /\ [][JobNext]_vars

QueueNext ==
  \/ \E u \in Users, r \in QRatings, t \in 1..MaxTime : QAdd(u, r, t)
  \/ \E u \in Users : QRemove(u)
  \/ \E u \in Users, r \in ProbeRatings : QFindMatch(u, r)

SpecQueue == Init /\ [][QueueNext]_vars

MMNext ==
  \/ \E i \in 1..MaxFinds, u \in MMUsers, r \in StoredRatings : FindMatchStart(i, u, r)
  \/ \E i \in 1..MaxFinds : FindMatchLookup(i)
  \/ \E i \in 1..MaxFinds, found \in BOOLEAN : CreateMatchProblem(i, found)
  \/ \E i \in 1..MaxFinds : CreateMatchRoom(i)
  \/ \E i \in 1..MaxFinds : DeadlineFires(i)
  \/ \E u \in MMUsers : CancelMatchmaking(u)
  \/ \E i \in 1..MaxFinds : Disconnect(i)
  \/ \E k \in DOMAIN mmRooms : MMRoomEnds(k)

SpecMM == Init /\ [][MMNext]_vars

\* An armed setTimeout callback runs once its delay is over.
SpecMMFair == SpecMM /\ \A i \in 1..MaxFinds : WF_vars(DeadlineFires(i))

RoomNext ==
  \/ CreateMatch
  \/ \E i \in 1..MaxOps, u \in {"u1", "u2"}, l \in {"python", "ruby"} : SubmitFind(i, u, l)
  \/ \E i \in 1..MaxOps, score \in Scores : SubmitSave(i, score)
  \/ \E i \in 1..MaxOps : SubmitAfterSave(i)
  \/ TimerFires
  \/ \E i \in 0..MaxOps : EndMatchFind(i)
  \/ \E i \in 0..MaxOps : EndMatchSave(i)
  \/ \E i \in 0..MaxOps : EndMatchRatings(i)
  \/ \E i \in 0..MaxOps : EndMatchEmit(i)
  \/ \E i \in 1..MaxOps, u \in {"u1", "u2"} : LeaveFind(i, u)
  \/ \E i \in 1..MaxOps : LeaveRatings(i)
  \/ \E i \in 1..MaxOps : LeaveSave(i)

Spec == Init /\ [][RoomNext]_vars

\* The room with a store whose writes may fail during settlement.
FailNext ==
  \/ RoomNext
  \/ \E i \in 0..MaxOps : EndMatchSaveFails(i)
  \/ \E i \in 0..MaxOps, written \in SUBSET {"a", "b"} : EndMatchRatingsFail(i, written)
  \/ \E i \in 1..MaxOps, written \in SUBSET {"a", "b"} : LeaveRatingsFail(i, written)
  \/ \E i \in 1..MaxOps : LeaveSaveFails(i)

SpecFail == Init /\ [][FailNext]_vars

\* Calls of calculateEloRatings.
EloNext ==
  \E ratingA \in EloRatings, ratingB \in EloRatings, winner \in {"A", "B", "draw"} :
    EloDuel(ratingA, ratingB, winner)

SpecElo == Init /\ [][EloNext]_vars

\* The contest endpoints.
ContestNext ==
  \/ \E u \in {"u1", "u2", "u3"}, p \in Problems, score \in ContestScores,
        complete \in BOOLEAN : SubmitSolution(u, p, score, complete)
  \/ \E found \in BOOLEAN : GetLeaderboard(found)

SpecContest == Init /\ [][ContestNext]_vars

\* The contest endpoints with the requests that end in an error.
ContestErrNext ==
  \/ ContestNext
  \/ \E status \in {403, 404} : SubmitRefused(status)
  \/ SubmitWithoutEntry

SpecContestErr == Init /\ [][ContestErrNext]_vars

\* Ratings at the upper end of the scale.
HighRatings == {3990, 4000}

\* The duel room and first solves in the contest, with members rated at
\* the upper end of the scale.
RatingNext ==
  \/ RoomNext
  \/ \E u \in {"u1", "u2"} : SubmitSolution(u, "p1", 100, TRUE)

RatingInit ==
  /\ JobInit /\ QueueInit /\ MMInit /\ RoomStart(HighRatings)
  /\ SessInit /\ ContestInit /\ EloInit

SpecRating == RatingInit /\ [][RatingNext]_vars

\* The room's events, those without a payload object included.
AckNext ==
  \/ RoomNext
  \/ \E i \in 1..MaxOps, event \in {"submit", "leave"} : MissingPayload(i, event)

SpecAck == Init /\ [][AckNext]_vars

\* Matchmaking entered while u1 is searching: an earlier findMatch of u1 has
\* returned with status searching and left u1 in the queue (the deadline
\* timer of that entry is not followed).
PairInit ==
  /\ JobInit /\ MMInit /\ RoomInit /\ SessInit /\ ContestInit /\ EloInit
  /\ queue = <<Player("u1", DEFAULT_RATING, 0, 0)>>
  /\ lastFind = NoCall

SpecPair == PairInit /\ [][MMNext]_vars

\* The room with its members' connections coming and going.
SessNext ==
  \/ CreateMatch
  \/ \E i \in 1..MaxSessOps, u \in {"u1", "u2"} : SubmitFind(i, u, "python")
  \/ \E i \in 1..MaxSessOps : SubmitSave(i, 100)
  \/ \E i \in 1..MaxSessOps : SubmitAfterSave(i)
  \/ TimerFires
  \/ \E i \in 0..MaxSessOps : EndMatchFind(i)
  \/ \E i \in 0..MaxSessOps : EndMatchSave(i)
  \/ \E i \in 0..MaxSessOps : EndMatchRatings(i)
  \/ \E i \in 0..MaxSessOps : EndMatchEmit(i)
  \/ \E i \in 1..MaxSessOps, u \in {"u1", "u2"} : LeaveFind(i, u)
  \/ \E i \in 1..MaxSessOps : LeaveRatings(i)
  \/ \E i \in 1..MaxSessOps : LeaveSave(i)
  \/ \E u \in {"u1", "u2"} : RejoinMatch(u)
  \/ \E u \in {"u1", "u2"} : DisconnectStart(u)
  \/ \E u \in {"u1", "u2"} : DisconnectRoom(u)
  \/ \E u \in {"u1", "u2"} : Reconnect(u)

SpecSess == Init /\ [][SessNext]_vars

(***************************************************************************)
(* CLAIMS                                                                  *)
(***************************************************************************)
\* No handler and no endMatch run of the room is between two of its steps.
Quiescent == \A i \in 0..MaxOps : tasks[i].pc \in {"idle", "done"}

\* C1: over its lifetime a room broadcasts matchFinished exactly once:
\* never twice, and once the room is completed and every handler has
\* returned, not zero times.
C1_MatchFinishedExactlyOnce ==
  /\ nFinished <= 1
  /\ (roomDB.roomStatus = "completed" /\ Quiescent) => nFinished = 1

\* C2: the pair of user-rating writes of a room is performed by at most one
\* settlement, whatever the interleaving of timer, submitSolution and
\* leaveMatch.
C2_SettlementAtMostOnce == nSettle <= 1

\* C3: for a submit-mode job at most one Solution is ever created, however
\* many polls there are and however they overlap.
C3_AtMostOneSolution == solutions <= 1

\* C4: after any sequence of add and remove each userId is queued at most
\* once and size() is the number of distinct queued userIds.
C4_QueueUnique ==
  /\ \A i, j \in DOMAIN queue : queue[i].userId = queue[j].userId => i = j
  /\ QueueSize(queue) = Cardinality({queue[i].userId : i \in DOMAIN queue})

\* an add of a userId that was queued has replaced its entry, next to another entry
C4_Witness == lastFind.op = "add" /\ lastFind.hit /\ Len(queue) >= 2

\* The queued entries findMatch(player) may return.
Candidates(q, player) ==
  {i \in DOMAIN q : /\ q[i].userId # player.userId
                    /\ Abs(q[i].rating - player.rating) <= RATING_RANGE}

\* C5: findMatch(p) leaves the queue as it was; it returns null iff no
\* other queued player is within 200 rating points, and otherwise a
\* candidate of smallest rating difference and, among those, of earliest
\* joinedAt.
C5_FindMatchBest ==
  lastFind.op = "findMatch" =>
    LET q == lastFind.before
        p == lastFind.player
        res == lastFind.res
    IN /\ queue = q
       /\ (res = NoPlayer) <=> (Candidates(q, p) = {})
       /\ res # NoPlayer =>
            \E i \in Candidates(q, p) :
              /\ q[i] = res
              /\ \A j \in Candidates(q, p) :
                   /\ Abs(q[i].rating - p.rating) <= Abs(q[j].rating - p.rating)
                   /\ Abs(q[i].rating - p.rating) = Abs(q[j].rating - p.rating)
                        => q[i].joinedAt <= q[j].joinedAt

\* findMatch has returned the later-inserted of two candidates at the same
\* distance, because it joined earlier
C5_Witness ==
  /\ lastFind.op = "findMatch"
  /\ \E i, j \in Candidates(queue, lastFind.player) :
       /\ i < j
       /\ Abs(queue[i].rating - lastFind.player.rating)
            = Abs(queue[j].rating - lastFind.player.rating)
       /\ queue[j].joinedAt < queue[i].joinedAt
       /\ lastFind.res = queue[j]

\* C6: a queue entry is chosen as opponent for at most one room, and right
\* after a pairing neither the caller nor the opponent is in the queue.
C6_PairingLeavesNeitherQueued ==
  /\ \A i \in 1..MaxFinds :
       mmTasks[i].opp # NoPlayer => ~mmTasks[i].selfQueued /\ ~mmTasks[i].oppQueued
  /\ \A i, j \in 1..MaxFinds :
       (mmTasks[i].opp # NoPlayer /\ mmTasks[j].opp # NoPlayer
          /\ mmTasks[i].opp.timeoutId = mmTasks[j].opp.timeoutId) => i = j

\* C7: a stored submissionStatus that is submitted stays submitted and one
\* that is forfeited stays forfeited.
C7_MonotoneSubmission ==
  [][\A k \in DOMAIN roomDB.users :
       /\ roomDB.users[k].submissionStatus = "submitted"
            => roomDB'.users[k].submissionStatus = "submitted"
       /\ roomDB.users[k].submissionStatus = "forfeited"
            => roomDB'.users[k].submissionStatus = "forfeited"]_vars

\* C8: a stored room that is completed is inactive, and once stored as
\* completed it stays completed (and so inactive) under every later step.
C8_CompletedTerminal ==
  [][/\ roomDB'.roomStatus = "completed" => ~roomDB'.isActive
     /\ roomDB.roomStatus = "completed" => roomDB'.roomStatus = "completed"]_vars

\* the save of a submitSolution that was in flight has landed in a room its
\* own member had already completed by leaving
C8_Witness ==
  /\ roomDB.roomStatus = "completed" /\ ~roomDB.isActive
  /\ tasks[0].pc = "idle"
  /\ roomDB.users[1].submissionStatus = "submitted"
  /\ roomDB.users[2].submissionStatus = "pending"

\* C9: when every member of a Live room is submitted or forfeited after a
\* submitSolution, endMatch is started by that handler: no handler has
\* returned leaving such a room Live.
C9_AllSubmittedSettles ==
  ~ /\ Quiescent
    /\ roomDB.roomStatus = "Live"
    /\ \A k \in DOMAIN roomDB.users :
         roomDB.users[k].submissionStatus \in {"submitted", "forfeited"}

\* C10: a leaveMatch that found the room Live stores the leaver forfeited
\* with score 0 and the room completed, with matchFinished broadcast for
\* reason forfeit, and writes the ratings of a win of the remaining player
\* over the leaver, whatever their scores.
C10_ForfeitSettles ==
  [][\A i \in 1..MaxOps :
       LET t == tasks[i]
           k == UserIndex(t.orig, t.user)
           leaver == t.orig.users[k]
           winner == t.orig.users[3 - k]
           elo == calculateEloRatings(RatingOrDefault(winner.rating),
                                      RatingOrDefault(leaver.rating),
                                      [scoreA |-> Micro, scoreB |-> 0])
       IN /\ (t.pc = "lv_ratings" /\ tasks'[i].pc = "lv_save") =>
               /\ userRating'[winner.userId] = elo.newRatingA
               /\ userRating'[leaver.userId] = elo.newRatingB
          /\ (t.pc = "lv_save" /\ tasks'[i].pc = "done" /\ t.orig.roomStatus = "Live") =>
               /\ roomDB'.users[k].submissionStatus = "forfeited"
               /\ roomDB'.users[k].score = 0
               /\ roomDB'.roomStatus = "completed"
               /\ "forfeit" \in finishLog']_vars

\* C11: when the match timer fires on a Live room, the timer's endMatch
\* stores the room completed and broadcasts matchFinished with reason
\* timeout; with nobody having submitted the payload is a draw, both scores
\* 0 and no winner.  (A timer is only armed while the room is Live.)
C11_TimeoutSettles ==
  [][/\ (matchTimers /\ tasks[0].pc = "idle") => roomDB.roomStatus = "Live"
     /\ (tasks[0].pc # "done" /\ tasks'[0].pc = "done") =>
          /\ roomDB'.roomStatus = "completed"
          /\ "timeout" \in finishLog'
     /\ (tasks[0].pc = "em_emit" /\ tasks'[0].pc = "done"
           /\ \A k \in DOMAIN tasks[0].orig.users :
                 tasks[0].orig.users[k].submissionStatus = "pending") =>
          LET m == MatchFinished(tasks[0].reason, SortedUsers(tasks[0].orig.users))
          IN m.reason = "timeout" /\ m.isDraw /\ m.winner = "null"
             /\ \A k \in DOMAIN m.scores : m.scores[k] = 0]_vars

\* C12: an endMatch run of the match timer that finds the room already
\* completed is a no-op: it returns, and the room document, the users'
\* stored ratings and the broadcast events are as they were.
C12_TimeoutIdempotent ==
  [][(tasks[0].pc = "em_find" /\ tasks'[0] # tasks[0]
        /\ roomDB.roomStatus = "completed") =>
       /\ tasks'[0].pc = "done"
       /\ UNCHANGED <<roomDB, userRating, nFinished, finishLog, nSettle>>]_vars

\* the timer's endMatch has returned from a room another handler completed
C12_Witness ==
  /\ tasks[0].pc = "done"
  /\ roomDB.roomStatus = "completed"
  /\ "timeout" \notin finishLog

\* C13: a submitSolution stores a submission only for a member whose stored
\* status is pending in a Live room, so each user has at most one accepted
\* submission per room; a rejected submitSolution is acknowledged with
\* success=false and leaves the room and the ratings as they were.
C13_SubmitOncePerUser ==
  [][\A i \in 1..MaxOps :
       /\ (tasks[i].kind = "submit" /\ tasks[i].pc = "eval" /\ tasks'[i].pc = "saved") =>
            /\ roomDB.roomStatus = "Live"
            /\ roomDB.users[UserIndex(roomDB, tasks[i].user)].submissionStatus = "pending"
       /\ (tasks[i].pc = "idle" /\ tasks'[i].pc = "done" /\ tasks'[i].ack = "failure") =>
            UNCHANGED <<roomDB, userRating>>]_vars

\* C14: a findMatch whose caller is in the queue when the event arrives, or
\* is a member of a Live room when the store is asked, is acknowledged with
\* success=false; the queue is left as it was and no room is created.
C14_FindMatchRejected ==
  [][\A i \in 1..MaxFinds :
       /\ (mmTasks[i].pc = "idle" /\ mmTasks'[i].pc # "idle"
             /\ \E j \in DOMAIN queue : queue[j].userId = mmTasks'[i].user) =>
            /\ mmTasks'[i].pc = "done" /\ mmTasks'[i].ack = "alreadySearching"
            /\ UNCHANGED <<queue, mmRooms>>
       /\ (mmTasks[i].pc = "lookup" /\ mmTasks'[i].pc # "lookup"
             /\ \E k \in DOMAIN mmRooms :
                   /\ mmRooms[k].status = "Live"
                   /\ mmTasks[i].user \in {mmRooms[k].p1, mmRooms[k].p2}) =>
            /\ mmTasks'[i].pc = "done" /\ mmTasks'[i].ack = "alreadyInMatch"
            /\ UNCHANGED <<queue, mmRooms>>]_vars

\* a findMatch of a member of a room that is Live has been rejected
C14_Witness ==
  /\ \E i \in 1..MaxFinds : mmTasks[i].ack = "alreadyInMatch"
  /\ \E k \in DOMAIN mmRooms : mmRooms[k].status = "Live"

\* C15: when createMatch finds no Problem, no room is stored, both sessions
\* get matchmakingError, neither of the pair is in the queue, and the caller
\* is not acknowledged with status matched.
C15_NoProblemFailsPairing ==
  [][\A i \in 1..MaxFinds :
       (mmTasks[i].pc = "problem" /\ mmTasks'[i].pc = "done") =>
         /\ <<"matchmakingError", i>> \in mmEvents'
         /\ mmRooms' = mmRooms
         /\ ~mmTasks[i].selfQueued /\ ~mmTasks[i].oppQueued
         /\ mmTasks'[i].ack # "matched"]_vars

\* The queue entry made by findMatch invocation i is in the queue.
EntryQueued(i) == \E j \in DOMAIN queue : queue[j].timeoutId = i

\* C16: a queued entry has its deadline armed; when the deadline fires with
\* the entry still queued, the entry is removed and matchmakingTimeout is
\* emitted to its session; so every queued entry eventually leaves the
\* queue (by pairing, cancel or its deadline).
C16_DeadlineEvicts ==
  /\ [](\A i \in 1..MaxFinds : EntryQueued(i) => i \in deadlines)
  /\ [][\A i \in 1..MaxFinds :
          (DeadlineFires(i) /\ EntryQueued(i)) =>
             /\ ~(\E j \in DOMAIN queue' : queue'[j].timeoutId = i)
             /\ <<"matchmakingTimeout", i>> \in mmEvents']_vars
  /\ \A i \in 1..MaxFinds : EntryQueued(i) ~> ~EntryQueued(i)

\* a deadline has evicted its entry and notified the session
C16_Witness ==
  \E i \in 1..MaxFinds :
    /\ <<"matchmakingTimeout", i>> \in mmEvents
    /\ ~EntryQueued(i) /\ i \notin deadlines

\* C17: a deadline is armed only while its own entry is in the queue (it is
\* cancelled when the entry leaves by pairing, cancel, disconnect or
\* replacement), so a deadline that fires finds its own entry, and
\* matchmakingTimeout is only ever emitted for an entry that was still
\* queued.
C17_DeadlineCancelled ==
  /\ [](\A i \in deadlines : EntryQueued(i))
  /\ [][\A i \in 1..MaxFinds :
          (<<"matchmakingTimeout", i>> \in mmEvents' /\ <<"matchmakingTimeout", i>> \notin mmEvents)
             => EntryQueued(i)]_vars

\* an add of the same user has replaced an entry and its deadline is gone,
\* without a timeout for it
C17_Witness ==
  \E i, j \in 1..MaxFinds :
    /\ i # j /\ mmTasks[i].user = mmTasks[j].user
    /\ mmTasks[i].ack = "searching" /\ mmTasks[j].ack = "searching"
    /\ i \notin deadlines /\ <<"matchmakingTimeout", i>> \notin mmEvents
    /\ EntryQueued(j) /\ j \in deadlines

\* C18: once the disconnect of a connection has been handled, no entry made
\* from that connection is in the queue.
C18_DisconnectLeavesNoEntry == \A i \in mmGone : ~EntryQueued(i)

\* C19: handling a disconnect leaves the room's roomStatus, isActive and
\* users' scores and submissionStatus, the match timer and the user
\* ratings as they were.
C19_DisconnectNeverForfeits ==
  [][(\E u \in {"u1", "u2"} : DisconnectStart(u) \/ DisconnectRoom(u)) =>
       UNCHANGED <<roomDB, userRating, matchTimers, matchStartTimes>>]_vars

\* a member's disconnect has been handled and the member is still pending
\* in the Live room
C19_Witness ==
  /\ roomDB.roomStatus = "Live" /\ roomDB.isActive /\ matchTimers
  /\ sessPc["u1"] = "gone"
  /\ <<"opponentDisconnected", "u1">> \in sessEvents
  /\ roomDB.users[1].submissionStatus = "pending"

\* C20: when the disconnect of a member of an active room has been handled,
\* opponentDisconnected has been emitted to the room for that member, also
\* when the connection was put in the room by createMatch only.
C20_DisconnectNotifiesOpponent ==
  [][\A u \in {"u1", "u2"} :
       (sessPc[u] # "gone" /\ sessPc'[u] = "gone"
          /\ roomDB # NoRoom /\ roomDB.isActive) =>
         <<"opponentDisconnected", u>> \in sessEvents']_vars

\* C21: a rejoinMatch of a member changes neither the room document nor the
\* timers nor a rating, so the call after it is acknowledged with the same
\* snapshot (roomStatus, users).
C21_RejoinIdempotent ==
  [][\A u \in {"u1", "u2"} :
       RejoinMatch(u) =>
         /\ UNCHANGED <<roomDB, userRating, matchTimers, matchStartTimes>>
         /\ RejoinSnapshot(roomDB', u) = RejoinSnapshot(roomDB, u)]_vars

\* a member has rejoined an active room in which a submission is stored
C21_Witness ==
  /\ joinedRooms["u1"] /\ sessPc["u1"] = "idle"
  /\ roomDB.isActive
  /\ \E k \in DOMAIN roomDB.users : roomDB.users[k].submissionStatus = "submitted"

\* C22: a completed room has no entry in matchTimers and none in
\* matchStartTimes, and its timer cannot fire any more.
C22_CompletedReleasesTimers ==
  (roomDB # NoRoom /\ roomDB.roomStatus = "completed") =>
    /\ ~matchTimers
    /\ ~matchStartTimes
    /\ ~ENABLED TimerFires

\* a room completed by a forfeit, with all handlers returned
C22_Witness ==
  /\ roomDB # NoRoom /\ roomDB.roomStatus = "completed"
  /\ \E k \in DOMAIN roomDB.users : roomDB.users[k].submissionStatus = "forfeited"
  /\ Quiescent

\* C23: a store failure during settlement is absorbed: an endMatch that
\* has passed its guard returns only by emitting matchFinished, with the
\* room stored as completed, whether or not a rating write or the room
\* persist failed on the way.
C23_FailureAbsorbed ==
  [][\A i \in 0..MaxOps :
       (tasks[i].pc \in {"em_save", "em_ratings", "em_emit"} /\ tasks'[i].pc = "done")
         => /\ nFinished' = nFinished + 1
            /\ roomDB'.roomStatus = "completed"]_vars

\* C25: an enqueue with an invalid payload (code or language missing,
\* language unsupported after lowercasing, testCases not an array, or for
\* submit no problemId) is answered 400 and writes neither the job hash
\* nor the job list.
C25_InvalidPayloadRejected ==
  [][\A mode \in {"run", "submit"}, p \in Payloads :
       ( /\ EnqueueStart(mode, p)
         /\ \/ p.code = "" \/ p.language = "" \/ ~p.testCases
            \/ ToLowerCase(p.language) \notin SUPPORTED_JOB_LANGUAGES
            \/ (mode = "submit" /\ ~p.problemId) )
       => /\ enq'.http = 400
          /\ job' = job
          /\ jobList' = jobList]_vars

\* C26: getResult creates a Solution only for a hash read with status
\* completed and mode submit: a poll of a missing job answers 404, a poll
\* of a queued, running or failed job answers {status} alone, a poll of a
\* completed run job goes straight to the TTL; none of these creates a
\* Solution or sets the persisted flag.
C26_PersistOnlyCompletedSubmit ==
  [][\A i \in 1..MaxPolls :
       /\ (PollRead(i) /\ job.status = "none")
            => (polls'[i].pc = "done" /\ polls'[i].http = 404)
       /\ (PollRead(i) /\ job.status \in {"queued", "running", "failed"})
            => /\ polls'[i].pc = "done" /\ polls'[i].http = 200
               /\ polls'[i].body = [status |-> job.status]
       /\ (PollRead(i) /\ job.status = "completed" /\ job.mode = "run")
            => polls'[i].pc = "expire"
       /\ (PollRead(i) \/ (PollExpire(i) /\ polls[i].result.mode = "run"))
            => (solutions' = solutions /\ job'.persisted = job.persisted)
       /\ (PollCreate(i) \/ PollSetPersisted(i))
            => (polls[i].result.status = "completed" /\ polls[i].result.mode = "submit")]_vars

\* a completed run job has been polled to the end and nothing was persisted
C26_Witness ==
  /\ polls[1].pc = "done" /\ polls[1].http = 200
  /\ polls[1].result.status = "completed" /\ polls[1].result.mode = "run"
  /\ solutions = 0 /\ ~job.persisted

\* The polls that answered with the result of a completed job.
Answered(i) ==
  polls[i].pc = "done" /\ polls[i].http = 200 /\ polls[i].result.status = "completed"

\* All polls of the completed job that have answered carry the same data.
SameResponse ==
  \A i, j \in 1..MaxPolls : (Answered(i) /\ Answered(j)) => polls[i].body = polls[j].body

\* C27: every poll of a completed job answers with the same {status, mode,
\* score, ...}, and each one, reaching the expire with the job still in the
\* cache, sets the TTL to 600 s for a submit job and 120 s for a run job.
C27_PollIdempotent ==
  [][/\ SameResponse'
     /\ \A i \in 1..MaxPolls :
          (PollExpire(i) /\ job.status = "completed")
            => ttl' = IF job.mode = "submit" THEN 600 ELSE 120]_vars

\* a second poll of a submit job, started after the first one persisted,
\* has answered too
C27_Witness ==
  /\ Answered(1) /\ Answered(2)
  /\ polls[1].result.mode = "submit"
  /\ ~polls[1].result.persisted /\ polls[2].result.persisted
  /\ ttl = 600

\* C24: after any sequence of duel settlements and contest submissions
\* every stored rating is within [100, 4000].
C24_RatingInRange ==
  \A u \in DOMAIN userRating :
    userRating[u] >= MIN_RATING /\ userRating[u] <= MAX_RATING

\* C28: after any sequence of accepted contest submissions of a user, the
\* entry of each problem holds the highest score submitted for it (and there
\* is an entry exactly for the problems submitted), and the contest entry's
\* score is the sum of the scores of its contestProblems.
C28_MaxAndSum ==
  \A u \in DOMAIN userDocs :
    LET doc == userDocs[u]
    IN /\ \A p \in Problems :
            LET k == EntryIndex(doc.contestProblems, p)
            IN IF submitted[u][p] = -1
                 THEN k = 0
                 ELSE /\ k # 0
                      /\ doc.contestProblems[k].score = submitted[u][p]
                      /\ \A j \in DOMAIN doc.contestProblems :
                           doc.contestProblems[j].problemId = p => j = k
       /\ doc.score = SumScores(doc.contestProblems)

\* a user holds 100 for one problem after a later, lower submission for it,
\* next to an entry for the other problem
C28_Witness ==
  \E u \in DOMAIN userDocs :
    LET cp == userDocs[u].contestProblems
    IN /\ Len(cp) = 2
       /\ cp[1].score = 100 /\ cp[1].submissionStatus = "partially correct"
       /\ userDocs[u].score = 100 + cp[2].score

\* C29: a contest submission appends the problem to solvedProblems and adds
\* 10 to the rating exactly when score >= actualMaxScore and the problem
\* is not in solvedProblems yet; solvedProblems never holds a problem twice.
C29_FirstSolveOnce ==
  [][/\ \A u \in DOMAIN userDocs, p \in Problems, score \in ContestScores :
          SubmitSolution(u, p, score, TRUE) =>
            LET solved == userDocs[u].solvedProblems
                first == /\ score >= actualMaxScore(ProblemDocs(p))
                         /\ \A i \in DOMAIN solved : solved[i] # p
            IN IF first
                 THEN /\ userDocs'[u].solvedProblems = Append(solved, p)
                      /\ userRating'[u] = userRating[u] + 10
                 ELSE /\ userDocs'[u].solvedProblems = solved
                      /\ userRating'[u] = userRating[u]
     /\ \A u \in DOMAIN userDocs :
          \A i, j \in DOMAIN userDocs'[u].solvedProblems :
            userDocs'[u].solvedProblems[i] = userDocs'[u].solvedProblems[j] => i = j]_vars

\* u1 has sent a second correct submission for the problem it had solved
C29_Witness ==
  /\ submissions = 2
  /\ reply.status = 201 /\ ~reply.solvedForFirstTime
  /\ userDocs["u1"].solvedProblems = <<"p1">>
  /\ userDocs["u1"].contestProblems =
       <<[problemId |-> "p1", score |-> 100, submissionStatus |-> "correct"]>>
  /\ userDocs["u2"].contestProblems = <<>> /\ userDocs["u3"].contestProblems = <<>>

\* C30: the leaderboard lists every participant once, by score descending,
\* with ranks 1..n in output order and ties in the order of the input;
\* problemsSolved counts the distinct problems with a correct entry.
C30_Leaderboard ==
  reply.status = 200 =>
    LET b == reply.board
        pos(id) == CHOOSE k \in DOMAIN CUsers : CUsers[k] = id
    IN /\ Len(b) = Len(CUsers)
       /\ \A k \in DOMAIN CUsers : \E i \in DOMAIN b : b[i].userId = CUsers[k]
       /\ \A i \in DOMAIN b :
            /\ b[i].rank = i
            /\ b[i].score = userDocs[b[i].userId].score
            /\ b[i].problemsSolved =
                 Cardinality({p \in Problems :
                    \E k \in DOMAIN userDocs[b[i].userId].contestProblems :
                      /\ userDocs[b[i].userId].contestProblems[k].problemId = p
                      /\ userDocs[b[i].userId].contestProblems[k].submissionStatus = "correct"})
       /\ \A i, j \in DOMAIN b :
            i < j => /\ b[i].score >= b[j].score
                     /\ b[i].score = b[j].score => pos(b[i].userId) < pos(b[j].userId)

\* a leaderboard led by two tied users, neither the first of the input,
\* ahead of a third with a lower score
C30_Witness ==
  /\ reply.status = 200
  /\ reply.board[1].userId = "u2" /\ reply.board[2].userId = "u3"
  /\ reply.board[1].score = reply.board[2].score
  /\ reply.board[2].score > reply.board[3].score
  /\ reply.board[1].problemsSolved = 1

\* C36: actualMaxScore is max(problem.maxScore, number of test cases * 100),
\* and a contest submission is stored as correct, and can be a first
\* solve, exactly when its score reaches that value.
C36_ActualMaxScore ==
  [][\A u \in DOMAIN userDocs, p \in Problems, score \in ContestScores :
       SubmitSolution(u, p, score, TRUE) =>
         LET problem == ProblemDocs(p)
             expected == Max(problem.maxScore, problem.testCases * 100)
             k == EntryIndex(userDocs'[u].contestProblems, p)
         IN /\ actualMaxScore(problem) = expected
            /\ (userDocs'[u].contestProblems[k].submissionStatus = "correct")
                 <=> (score >= expected)
            /\ reply'.solvedForFirstTime => score >= expected]_vars

\* C40: a contest submit-solution that ends in an error response (404,
\* 403 or 400) has created no Solution, left contest.submissions as it was
\* and left the user documents as they were.
C40_AtomicOnError ==
  [][reply'.status \in {400, 403, 404} =>
       UNCHANGED <<submissions, userDocs, userRating>>]_vars

\* C33: in a calculateEloRatings call in which no clamp applies the two
\* rating changes add up to 0 when the K-factors are equal, and to at most
\* |K_A - K_B| in absolute value when they differ.
C33_EloConservation ==
  LET c == eloCall
      sum == c.out.ratingChangeA + c.out.ratingChangeB
      K(r) == IF r < 1200 THEN 40 ELSE IF r >= 2000 THEN 10 ELSE 20
  IN ( /\ c.winner # "none"
       /\ c.out.newRatingA = c.ratingA + c.out.ratingChangeA
       /\ c.out.newRatingB = c.ratingB + c.out.ratingChangeB )
     => IF K(c.ratingA) = K(c.ratingB) THEN sum = 0
        ELSE Abs(sum) <= Abs(K(c.ratingA) - K(c.ratingB))

\* an upset between players of different K-factors, no clamp applied
C33_Witness ==
  /\ eloCall.ratingA = 1000 /\ eloCall.ratingB = 2400 /\ eloCall.winner = "A"
  /\ eloCall.out.newRatingA = 1000 + eloCall.out.ratingChangeA
  /\ eloCall.out.ratingChangeA + eloCall.out.ratingChangeB # 0

C38_CompletedRoomFrozen ==
  [][roomDB.roomStatus = "completed" =>
       \A k \in DOMAIN roomDB.users :
         /\ roomDB'.users[k].score = roomDB.users[k].score
         /\ roomDB'.users[k].submissionStatus = roomDB.users[k].submissionStatus
         /\ roomDB'.users[k].submissionTime = roomDB.users[k].submissionTime]_vars

\* C32: the broadcasts of a room come in the order userSubmitting, then
\* scoreUpdate and submissionUpdate, then matchFinished: the handler that
\* broadcasts scoreUpdate and submissionUpdate has broadcast userSubmitting
\* before its evaluation, and it broadcasts them only while no matchFinished
\* of the room has gone out.
C32_BroadcastOrder ==
  [][\A i \in 1..MaxOps :
       SubmitAfterSave(i) => /\ tasks[i].kind = "submit" /\ tasks[i].orig # NoRoom
                             /\ nFinished = 0]_vars

\* C39: the rating a settlement writes to a user is that user's stored
\* rating just before the write plus the rating change the settlement
\* reports, clamped to [MIN_RATING, MAX_RATING], whatever has happened to
\* the stored rating since the room's snapshot of it.
C39_SettlementKeepsUpdates ==
  [][\A i \in 0..MaxOps :
       /\ EndMatchRatings(i) =>
            LET elo == EndMatchElo(SortedUsers(tasks[i].orig.users))
            IN /\ userRating'[elo.a] = clampRating(userRating[elo.a] + elo.ratingChangeA)
               /\ userRating'[elo.b] = clampRating(userRating[elo.b] + elo.ratingChangeB)
       /\ LeaveRatings(i) =>
            LET t == tasks[i]
                w == CHOOSE j \in DOMAIN t.doc.users :
                       t.doc.users[j].submissionStatus # "forfeited"
                elo == ForfeitElo(t.doc.users[w], t.doc.users[UserIndex(t.doc, t.user)])
            IN /\ userRating'[elo.a] = clampRating(userRating[elo.a] + elo.ratingChangeA)
               /\ userRating'[elo.b] = clampRating(userRating[elo.b] + elo.ratingChangeB)]_vars

\* C37: no user is a member of two stored Live rooms at the same time.
C37_OneLiveRoomPerUser ==
  \A j, k \in DOMAIN mmRooms :
    (/\ j # k
     /\ mmRooms[j].status = "Live" /\ mmRooms[k].status = "Live"
     /\ {mmRooms[j].p1, mmRooms[j].p2} \cap {mmRooms[k].p1, mmRooms[k].p2} # {}) => FALSE

\* C31: every event handler that returns has invoked its acknowledgement
\* callback (with success true or false), on whatever path it returned.
C31_AcknowledgedOnce ==
  [][\A i \in 1..MaxOps :
       (tasks[i].pc # "done" /\ tasks'[i].pc = "done") =>
          tasks'[i].ack \in {"success", "failure"}]_vars

=============================================================================
